---- MODULE Spec2Model ----
(***************************************************************************)
(* Command dispatch engine of the Jarvis runtime: PermissionGuard,         *)
(* CustomCommandService, AutomationEngine, IntentParser and the            *)
(* JarvisRuntime dispatcher (dispatchCommand / executeCustomCommand /      *)
(* executePluginCommand / executeIntent).                                  *)
(*                                                                         *)
(* Strings are TLA+ strings handled character by character (Len, SubSeq,   *)
(* \o), so trimming, whitespace collapsing, lower-casing, prefix and       *)
(* substring tests are computed the way the TypeScript code computes them. *)
(***************************************************************************)
EXTENDS Integers, Sequences, FiniteSets, TLC

VARIABLES
    runtimeLevel,     \* PermissionGuard.runtimeLevel (the ceiling)
    probeLog,         \* answers of the guard's two queries, most recent last
    commands,         \* CustomCommandService.commands
    persisted,        \* content of custom-commands.json (JsonStore)
    nextId,           \* number of ids createId("cc") has handed out
    storeResult,      \* outcome of the last store call: "ok" or the error thrown
    storeCall,        \* what the last store call was asked, judged on the state before it
    plugins,          \* state.plugins
    routines,         \* state.routines
    automations,      \* state.automations
    mode,             \* state.mode
    commandHistory,   \* state.commandHistory, most recent first
    executed,         \* side effects performed (spawn, plugin run, reminder ...)
    stack,            \* active dispatchCommand invocations, innermost last
    ret,              \* CommandResponse.result of the invocation that just returned
    response,         \* what runCommand handed to its caller
    dispatchLog,      \* every dispatchCommand invocation of the current run
    gated,            \* an invocation of the current run returned needsConfirmation
    runs,             \* number of top-level runCommand calls so far
    suggestions,      \* state.suggestions (their texts), most recent first
    memory,           \* state.memory: commonCommands and lastMode
    evaluation,       \* the last direct call of AutomationEngine.evaluate and its outcome
    sandbox,          \* the plugin sandbox: the call in hand, its worker and its result
    parseLog,         \* direct calls of IntentParser.parse and their answers, most recent last
    voice,            \* VoiceService: its fields, the clock, and what it handed to onCommand
    offline,          \* openApp called on a URL: the call and what openExternal did
    options,          \* BackendOptionsService: its numeric options, the file, and the last call
    reload            \* reloadPlugins: its calls, state.plugins before the last one and the folders it found

guardVars == <<runtimeLevel, probeLog>>
storeVars == <<commands, persisted, nextId, storeResult, storeCall>>
configVars == <<plugins, routines, automations>>
runVars == <<mode, commandHistory, executed, stack, ret, response, dispatchLog, gated, runs,
            suggestions, memory>>
\* state of the components exercised on their own
sideVars == <<evaluation, sandbox, parseLog, voice, offline, options, reload>>
vars == <<runtimeLevel, probeLog, commands, persisted, nextId, storeResult, storeCall,
          plugins, routines, automations, mode, commandHistory, executed,
          stack, ret, response, dispatchLog, gated, runs, suggestions, memory,
          evaluation, sandbox,
          parseLog, voice,
          offline,
          options,
          reload>>

(***************************************************************************)
(* Bounds                                                                  *)
(***************************************************************************)
MaxProbes == 2        \* guard queries kept in probeLog
MaxCreates == 2       \* ids handed out by createId in the store specification
MaxRuns == 1          \* top-level runCommand calls per behaviour
MaxCallStack == 9     \* nested synchronous calls the engine's call stack holds
MaxToggles == 1       \* setPluginEnabled calls per behaviour
MaxParses == 2        \* direct parser calls kept in parseLog
MaxTranscripts == 3   \* simulateTranscript calls per behaviour
MaxVoiceClock == 4    \* last tick of the clock the voice service reads
MaxPushes == 3        \* pushAudio calls per behaviour
MaxOpens == 2         \* openApp calls on a URL per behaviour
MaxOptionCalls == 2   \* update and reset calls of the backend options per behaviour

(***************************************************************************)
(* String primitives                                                       *)
(***************************************************************************)
Char(s, i) == SubSeq(s, i, i)

UpperChars == "ABCDEFGHIJKLMNOPQRSTUVWXYZ"
LowerChars == "abcdefghijklmnopqrstuvwxyz"

\* the lower-case letter of every upper-case letter
LowerOf == [c \in {Char(UpperChars, i) : i \in 1..26} |->
              Char(LowerChars, CHOOSE i \in 1..26 : Char(UpperChars, i) = c)]

ToLowerChar(c) == IF c \in DOMAIN LowerOf THEN LowerOf[c] ELSE c

RECURSIVE ToLowerCase(_)
ToLowerCase(s) ==
    IF Len(s) = 0 THEN ""
    ELSE ToLowerChar(Char(s, 1)) \o ToLowerCase(SubSeq(s, 2, Len(s)))

IsSpace(c) == c \in {" ", "\t"}

RECURSIVE TrimStart(_)
TrimStart(s) ==
    IF Len(s) > 0 /\ IsSpace(Char(s, 1)) THEN TrimStart(SubSeq(s, 2, Len(s))) ELSE s

RECURSIVE TrimEnd(_)
TrimEnd(s) ==
    IF Len(s) > 0 /\ IsSpace(Char(s, Len(s))) THEN TrimEnd(SubSeq(s, 1, Len(s) - 1)) ELSE s

Trim(s) == TrimEnd(TrimStart(s))

\* replace(/\s+/g, " ")
RECURSIVE CollapseSpaces(_)
CollapseSpaces(s) ==
    IF Len(s) = 0 THEN ""
    ELSE IF IsSpace(Char(s, 1))
         THEN " " \o CollapseSpaces(TrimStart(s))
         ELSE Char(s, 1) \o CollapseSpaces(SubSeq(s, 2, Len(s)))

StartsWith(s, p) == Len(p) <= Len(s) /\ SubSeq(s, 1, Len(p)) = p

Includes(s, p) == \E i \in 1..(Len(s) - Len(p) + 1) : SubSeq(s, i, i + Len(p) - 1) = p

IndexOf(s, p) ==
    IF Includes(s, p)
    THEN CHOOSE i \in 1..(Len(s) - Len(p) + 1) :
            /\ SubSeq(s, i, i + Len(p) - 1) = p
            /\ \A j \in 1..(i - 1) : SubSeq(s, j, j + Len(p) - 1) # p
    ELSE 0

\* the replacement text of String.prototype.replace, from position i on: "$$"
\* inserts "$", "$&" the matched text, "$`" the text before the match, "$'" the
\* text after it; every other character stands for itself
RECURSIVE ExpandReplacement(_, _, _, _, _)
ExpandReplacement(r, i, matched, before, after) ==
    IF i > Len(r) THEN ""
    ELSE IF Char(r, i) = "$" /\ i < Len(r) /\ Char(r, i + 1) \in {"$", "&", "`", "'"}
         THEN (CASE Char(r, i + 1) = "$" -> "$"
                 [] Char(r, i + 1) = "&" -> matched
                 [] Char(r, i + 1) = "`" -> before
                 [] Char(r, i + 1) = "'" -> after)
              \o ExpandReplacement(r, i + 2, matched, before, after)
         ELSE Char(r, i) \o ExpandReplacement(r, i + 1, matched, before, after)

\* String.prototype.replace with a string pattern: first occurrence only
ReplaceFirst(s, p, r) ==
    IF IndexOf(s, p) = 0 THEN s
    ELSE SubSeq(s, 1, IndexOf(s, p) - 1)
         \o ExpandReplacement(r, 1, p, SubSeq(s, 1, IndexOf(s, p) - 1),
                              SubSeq(s, IndexOf(s, p) + Len(p), Len(s)))
         \o SubSeq(s, IndexOf(s, p) + Len(p), Len(s))

normalizeSpaces(value) == CollapseSpaces(Trim(value))

normalizeTrigger(value) == ToLowerCase(normalizeSpaces(value))

(***************************************************************************)
(* PermissionGuard                                                         *)
(***************************************************************************)
Levels == {"safe", "confirm", "admin"}

rank(level) == CASE level = "safe" -> 1 [] level = "confirm" -> 2 [] level = "admin" -> 3

canRunAtOrBelow(ceiling, level) == rank(ceiling) > rank(level)

canRun(ceiling, level) == rank(ceiling) >= rank(level)

needsConfirmationIgnoringBypass(level, bypassConfirmation) ==
    level = "confirm" \/ level = "admin"

needsConfirmation(level, bypassConfirmation) ==
    IF bypassConfirmation THEN FALSE
    ELSE level = "confirm" \/ level = "admin"

\* a caller asks canRun(level); the guard's field is read, nothing is written
CallCanRun(level) ==
    /\ Len(probeLog) < MaxProbes
    /\ probeLog' = Append(probeLog,
          [fn |-> "canRun", level |-> level, bypass |-> FALSE,
           answer |-> canRun(runtimeLevel, level)])
    /\ UNCHANGED <<runtimeLevel, sideVars, storeVars, configVars, runVars>>

\* a caller asks needsConfirmation(level, bypass)
CallNeedsConfirmation(level, bypass) ==
    /\ Len(probeLog) < MaxProbes
    /\ probeLog' = Append(probeLog,
          [fn |-> "needsConfirmation", level |-> level, bypass |-> bypass,
           answer |-> needsConfirmation(level, bypass)])
    /\ UNCHANGED <<runtimeLevel, sideVars, storeVars, configVars, runVars>>

(***************************************************************************)
(* CustomCommandService                                                    *)
(***************************************************************************)
\* an optional argument is a set: {} is undefined, {v} is the value v
Value(opt) == CHOOSE v \in opt : TRUE

\* createId("cc"): a fresh id for every call
createId(n) == "cc_" \o Char("123456789", n)

StoredCommand(id, name, trigger, action, passThroughArgs, enabled) ==
    [id |-> id, name |-> name, trigger |-> trigger, action |-> action,
     passThroughArgs |-> passThroughArgs, enabled |-> enabled]

\* CustomCommandService.normalizeStored
normalizeStored(item) ==
    StoredCommand(item.id, normalizeSpaces(item.name), normalizeTrigger(item.trigger),
                  normalizeSpaces(item.action), item.passThroughArgs, item.enabled)

RECURSIVE MapNormalizeStored(_)
MapNormalizeStored(items) ==
    IF Len(items) = 0 THEN <<>>
    ELSE <<normalizeStored(Head(items))>> \o MapNormalizeStored(Tail(items))

persistEnabledOnly(cmds) == SelectSeq(cmds, LAMBDA item : item.enabled)

\* CustomCommandService.persist: store.write(this.commands)
persist(cmds) == cmds

\* the call just made: the operation, whether its id names a stored command,
\* and whether the name or trigger asked for is the name (ignoring case) or the
\* trigger of another stored command
NoCall == [op |-> "none", known |-> TRUE, collides |-> FALSE]

Collides(cmds, name, trigger, exceptId) ==
    \E i \in 1..Len(cmds) :
       /\ cmds[i].id # exceptId
       /\ \/ ToLowerCase(cmds[i].name) = ToLowerCase(normalizeSpaces(name))
          \/ cmds[i].trigger = ToLowerCase(normalizeSpaces(trigger))

Known(cmds, id) == \E i \in 1..Len(cmds) : cmds[i].id = id

StoredById(cmds, id) == cmds[CHOOSE i \in 1..Len(cmds) : cmds[i].id = id]

hasConflictByNameOnly(cmds, name, trigger, currentId) ==
    LET normalizedName == ToLowerCase(Trim(name))
    IN \E i \in 1..Len(cmds) :
          /\ ~(currentId # "" /\ cmds[i].id = currentId)
          /\ ToLowerCase(Trim(cmds[i].name)) = normalizedName

hasConflictIncludingSelf(cmds, name, trigger, currentId) ==
    LET normalizedName == ToLowerCase(Trim(name))
        normalizedTrigger == normalizeTrigger(trigger)
    IN \E i \in 1..Len(cmds) :
          \/ ToLowerCase(Trim(cmds[i].name)) = normalizedName
          \/ cmds[i].trigger = normalizedTrigger

hasConflict(cmds, name, trigger, currentId) ==
    LET normalizedName == ToLowerCase(Trim(name))
        normalizedTrigger == normalizeTrigger(trigger)
    IN \E i \in 1..Len(cmds) :
          /\ ~(currentId # "" /\ cmds[i].id = currentId)
          /\ \/ ToLowerCase(Trim(cmds[i].name)) = normalizedName
             \/ cmds[i].trigger = normalizedTrigger

\* first index holding the id, 0 when absent (Array.find / findIndex)
FindIndexById(cmds, id) ==
    IF \E i \in 1..Len(cmds) : cmds[i].id = id
    THEN CHOOSE i \in 1..Len(cmds) :
            cmds[i].id = id /\ \A j \in 1..(i - 1) : cmds[j].id # id
    ELSE 0

RemoveAt(seq, i) == SubSeq(seq, 1, i - 1) \o SubSeq(seq, i + 1, Len(seq))

\* CustomCommandService.create
StoreCreate(name, trigger, action, passThroughArgs) ==
    LET n == normalizeSpaces(name)
        t == normalizeTrigger(trigger)
        a == normalizeSpaces(action)
    IN /\ nextId < MaxCreates
       /\ storeCall' = [op |-> "create", known |-> TRUE,
                        collides |-> Collides(commands, name, trigger, "")]
       /\ IF hasConflict(commands, n, t, "")
          THEN /\ storeResult' = "Custom command name or trigger already exists."
               /\ UNCHANGED <<commands, persisted, nextId>>
          ELSE /\ commands' = <<StoredCommand(createId(nextId + 1), n, t, a,
                                              passThroughArgs, TRUE)>> \o commands
               /\ persisted' = persist(commands')
               /\ nextId' = nextId + 1
               /\ storeResult' = "ok"
       /\ UNCHANGED <<guardVars, sideVars, configVars, runVars>>

\* CustomCommandService.update
StoreUpdate(id, name, trigger, action, passThroughArgs, enabled) ==
    LET idx == FindIndexById(commands, id)
    IN /\ storeCall' =
             [op |-> "update", known |-> Known(commands, id),
              collides |->
                 /\ Known(commands, id)
                 /\ Collides(commands,
                       IF name = {} THEN StoredById(commands, id).name ELSE Value(name),
                       IF trigger = {} THEN StoredById(commands, id).trigger ELSE Value(trigger),
                       id)]
       /\ IF idx = 0
          THEN /\ storeResult' = "Custom command not found."
               /\ UNCHANGED <<commands, persisted>>
          ELSE LET target == commands[idx]
                   nextName == IF name # {} THEN normalizeSpaces(Value(name)) ELSE target.name
                   nextTrigger == IF trigger # {} THEN normalizeTrigger(Value(trigger))
                                  ELSE target.trigger
                   nextAction == IF action # {} THEN normalizeSpaces(Value(action))
                                 ELSE target.action
               IN IF hasConflict(commands, nextName, nextTrigger, id)
                  THEN /\ storeResult' = "Another custom command already uses that name or trigger."
                       /\ UNCHANGED <<commands, persisted>>
                  ELSE /\ commands' = [commands EXCEPT ![idx] =
                            StoredCommand(target.id, nextName, nextTrigger, nextAction,
                               IF passThroughArgs # {} THEN Value(passThroughArgs)
                               ELSE target.passThroughArgs,
                               IF enabled # {} THEN Value(enabled) ELSE target.enabled)]
                       /\ persisted' = persist(commands')
                       /\ storeResult' = "ok"
       /\ UNCHANGED <<nextId, guardVars, sideVars, configVars, runVars>>

\* CustomCommandService.delete
StoreDelete(id) ==
    LET idx == FindIndexById(commands, id)
    IN /\ storeCall' = [op |-> "delete", known |-> Known(commands, id), collides |-> FALSE]
       /\ IF idx = 0
          THEN /\ storeResult' = "Custom command not found."
               /\ UNCHANGED <<commands, persisted>>
          ELSE /\ commands' = RemoveAt(commands, idx)
               /\ persisted' = persist(commands')
               /\ storeResult' = "ok"
       /\ UNCHANGED <<nextId, guardVars, sideVars, configVars, runVars>>

\* CustomCommandService.init: the file's commands when it holds any, the seed
\* otherwise, normalized and written back
StoreInit(seed) ==
    /\ storeResult = "constructed"
    /\ commands' = IF Len(persisted) > 0 THEN MapNormalizeStored(persisted)
                   ELSE MapNormalizeStored(seed)
    /\ persisted' = persist(commands')
    /\ storeResult' = "ok"
    /\ storeCall' = [op |-> "init", known |-> TRUE, collides |-> FALSE]
    /\ UNCHANGED <<nextId, guardVars, sideVars, configVars, runVars>>

\* what custom-commands.json holds when the service is constructed, and the
\* seeds init is given (commands of the legacy state)
StoredFiles == {<<>>, <<StoredCommand("cc_0", " Old  One", "OLD ", "open  notepad ", FALSE, TRUE)>>}
StoreSeeds == {<<StoredCommand("cc_0", "Seed", " Seed", "open chrome", TRUE, FALSE)>>}

\* inputs of the store calls
StoreNames == {"Go", " GO ", "Run  It"}
StoreTriggers == {"Go ", "run  it"}
StoreActions == {"open  chrome"}
StoreIds == {createId(n) : n \in 1..MaxCreates} \cup {"cc_0", "cc_missing"}
\* the other fields an update sets: none or all of them
StoreFieldUpdates == {<<{}, {}, {}>>, <<{"open  chrome"}, {TRUE}, {FALSE}>>}
OptionalOf(S) == {{}} \cup {{v} : v \in S}

\* position of stored command i in
\* commands.filter(enabled).sort((a, b) => b.trigger.length - a.trigger.length):
\* longer trigger first, equal lengths keep their stored order (stable sort)
SortsBeforeStoredOrder(cmds, i, j) == i < j

SortsBefore(cmds, i, j) ==
    \/ Len(cmds[i].trigger) > Len(cmds[j].trigger)
    \/ Len(cmds[i].trigger) = Len(cmds[j].trigger) /\ i < j

\* new RegExp(`^${escapeRegex(trigger)}\\s+(.+)$`, "i") applied to normalized:
\* the captured group, or "" when the expression does not match
TriggerArgs(normalized, trigger) ==
    LET rest == SubSeq(normalized, Len(trigger) + 1, Len(normalized))
        afterSpaces == TrimStart(rest)
    IN IF /\ Len(normalized) >= Len(trigger) + 2
          /\ ToLowerCase(SubSeq(normalized, 1, Len(trigger))) = ToLowerCase(trigger)
          /\ IsSpace(Char(rest, 1))
       THEN IF Len(afterSpaces) > 0 THEN afterSpaces ELSE Char(rest, Len(rest))
       ELSE ""

MatchesCommand(normalized, item) ==
    \/ normalized = item.trigger
    \/ normalized = ToLowerCase(Trim(item.name))
    \/ TriggerArgs(normalized, item.trigger) # ""

NoMatch == [found |-> FALSE, index |-> 0, args |-> ""]

\* CustomCommandService.match
match(cmds, rawCommand) ==
    LET normalized == ToLowerCase(normalizeSpaces(rawCommand))
        hits == {i \in 1..Len(cmds) : cmds[i].enabled /\ MatchesCommand(normalized, cmds[i])}
    IN IF hits = {} THEN NoMatch
       ELSE LET i == CHOOSE k \in hits : \A j \in hits \ {k} : SortsBefore(cmds, k, j)
            IN [found |-> TRUE, index |-> i,
                args |-> IF normalized = cmds[i].trigger
                            \/ normalized = ToLowerCase(Trim(cmds[i].name))
                         THEN ""
                         ELSE normalizeSpaces(TriggerArgs(normalized, cmds[i].trigger))]

\* CustomCommandService.buildTarget
buildTarget(command, args) ==
    LET action == Trim(command.action)
    IN IF action = "" THEN ""
       ELSE IF Includes(action, "{args}")
            THEN normalizeSpaces(ReplaceFirst(action, "{args}", args))
       ELSE IF command.passThroughArgs /\ args # ""
            THEN normalizeSpaces(action \o " " \o args)
       ELSE action

(***************************************************************************)
(* PluginService                                                           *)
(***************************************************************************)
\* PluginService.findByCommand: index of the first plugin whose entryCommand
\* is a prefix of the command, 0 when there is none
findByCommand(command, plugs) ==
    LET text == ToLowerCase(Trim(command))
        hits == {i \in 1..Len(plugs) : StartsWith(text, ToLowerCase(plugs[i].entryCommand))}
    IN IF hits = {} THEN 0 ELSE CHOOSE i \in hits : \A j \in hits : i <= j

(***************************************************************************)
(* IntentParser                                                            *)
(***************************************************************************)
includesAny(value, words) == \E w \in words : Includes(value, w)

\* text.replace(/^(open|launch|start)\s+/, "")
StripLaunchVerb(text) ==
    LET verbs == {v \in {"open", "launch", "start"} :
                    StartsWith(text, v) /\ Len(text) > Len(v) /\ IsSpace(Char(text, Len(v) + 1))}
    IN IF verbs = {} THEN text
       ELSE LET v == CHOOSE w \in verbs : TRUE
            IN TrimStart(SubSeq(text, Len(v) + 1, Len(text)))

\* text.replace(/^(run|start)?\s*routine\s+/, "")
StripRoutineVerb(text) ==
    LET afterVerb == IF StartsWith(text, "run") THEN SubSeq(text, 4, Len(text))
                     ELSE IF StartsWith(text, "start") THEN SubSeq(text, 6, Len(text))
                     ELSE text
        Stripped(t) ==
            LET u == TrimStart(t)
            IN IF StartsWith(u, "routine") /\ Len(u) > 7 /\ IsSpace(Char(u, 8))
               THEN {TrimStart(SubSeq(u, 8, Len(u)))}
               ELSE {}
        withVerb == Stripped(afterVerb)
        withoutVerb == Stripped(text)
    IN IF withVerb # {} THEN Value(withVerb)
       ELSE IF withoutVerb # {} THEN Value(withoutVerb)
       ELSE text

\* IntentParser.parse: the intent type and the entities the dispatcher reads
parse(rawCommand) ==
    LET text == ToLowerCase(Trim(rawCommand))
    IN IF text = "" THEN [type |-> "unknown", app |-> "", name |-> ""]
       ELSE IF includesAny(text, {"open ", "launch ", "start "})
            THEN [type |-> "open_app", app |-> StripLaunchVerb(text), name |-> ""]
       ELSE IF includesAny(text, {"play ", "resume music", "music on"})
            THEN [type |-> "play_media", app |-> "", name |-> ""]
       ELSE IF includesAny(text, {"pause", "stop music", "music off"})
            THEN [type |-> "pause_media", app |-> "", name |-> ""]
       ELSE IF includesAny(text, {"remind", "reminder"})
            THEN [type |-> "set_reminder", app |-> "", name |-> ""]
       ELSE IF includesAny(text, {"alarm", "wake me"})
            THEN [type |-> "set_alarm", app |-> "", name |-> ""]
       ELSE IF includesAny(text, {"run routine", "start routine", "routine "})
            THEN [type |-> "run_routine", app |-> "", name |-> StripRoutineVerb(text)]
       ELSE IF includesAny(text, {"list reminders", "show reminders"})
            THEN [type |-> "list_reminders", app |-> "", name |-> ""]
       ELSE IF includesAny(text, {"system info", "status", "telemetry"})
            THEN [type |-> "system_info", app |-> "", name |-> ""]
       ELSE [type |-> "unknown", app |-> "", name |-> ""]

\* IntentParser.requiredPermission
requiredPermission(intent) ==
    IF intent = "open_app" \/ intent = "run_routine" THEN "confirm" ELSE "safe"

(***************************************************************************)
(* parseTimeRange and AutomationEngine                                     *)
(***************************************************************************)
Digits == "0123456789"

DigitValueOf == [c \in {Char(Digits, i) : i \in 1..10} |->
                   (CHOOSE i \in 1..10 : Char(Digits, i) = c) - 1]

IsDigit(c) == c \in DOMAIN DigitValueOf

DigitValue(c) == DigitValueOf[c]

AllDigits(s) == \A i \in 1..Len(s) : IsDigit(Char(s, i))

RECURSIVE ToNumber(_)
ToNumber(s) ==
    IF Len(s) = 0 THEN 0
    ELSE 10 * ToNumber(SubSeq(s, 1, Len(s) - 1)) + DigitValue(Char(s, Len(s)))

\* (\d{1,2}):(\d{2}) as minutes, -1 when the text has another shape
ClockMinutes(s) ==
    LET colon == IndexOf(s, ":")
        hh == SubSeq(s, 1, colon - 1)
        mm == SubSeq(s, colon + 1, Len(s))
    IN IF /\ colon \in {2, 3}
          /\ Len(mm) = 2
          /\ AllDigits(hh)
          /\ AllDigits(mm)
       THEN ToNumber(hh) * 60 + ToNumber(mm)
       ELSE -1

NoRange == [valid |-> FALSE, startMinutes |-> 0, endMinutes |-> 0]

\* parseTimeRange
parseTimeRange(value) ==
    LET dash == IndexOf(value, "-")
        startMinutes == ClockMinutes(SubSeq(value, 1, dash - 1))
        endMinutes == ClockMinutes(SubSeq(value, dash + 1, Len(value)))
    IN IF dash = 0 \/ startMinutes < 0 \/ endMinutes < 0 THEN NoRange
       ELSE IF startMinutes < 0 \/ endMinutes > 24 * 60 THEN NoRange
       ELSE [valid |-> TRUE, startMinutes |-> startMinutes, endMinutes |-> endMinutes]

conditionHoldsWithoutWrap(condition, command, currentMode, current) ==
    IF condition.type = "contains_command"
    THEN Includes(ToLowerCase(command), ToLowerCase(condition.value))
    ELSE IF condition.type = "mode_is"
    THEN currentMode = condition.value
    ELSE IF condition.type = "time_range"
    THEN LET range == parseTimeRange(condition.value)
         IN IF ~range.valid THEN FALSE
            ELSE current >= range.startMinutes /\ current <= range.endMinutes
    ELSE FALSE

\* one condition of AutomationEngine.matchRule
conditionHolds(condition, command, currentMode, current) ==
    IF condition.type = "contains_command"
    THEN Includes(ToLowerCase(command), ToLowerCase(condition.value))
    ELSE IF condition.type = "mode_is"
    THEN currentMode = condition.value
    ELSE IF condition.type = "time_range"
    THEN LET range == parseTimeRange(condition.value)
         IN IF ~range.valid THEN FALSE
            ELSE IF range.startMinutes <= range.endMinutes
                 THEN current >= range.startMinutes /\ current <= range.endMinutes
                 ELSE current >= range.startMinutes \/ current <= range.endMinutes
    ELSE FALSE

matchRuleAnyCondition(rule, command, currentMode, current) ==
    \E k \in 1..Len(rule.conditions) :
        conditionHolds(rule.conditions[k], command, currentMode, current)

\* AutomationEngine.matchRule
matchRule(rule, command, currentMode, current) ==
    \A k \in 1..Len(rule.conditions) :
        conditionHolds(rule.conditions[k], command, currentMode, current)

\* the actions of one type of a rule, in action order
RECURSIVE ActionValues(_, _)
ActionValues(actions, type) ==
    IF Len(actions) = 0 THEN <<>>
    ELSE (IF Head(actions).type = type THEN <<Head(actions).value>> ELSE <<>>)
         \o ActionValues(Tail(actions), type)

\* the values of one action type over the enabled, matching rules, in rule order
RECURSIVE CollectActions(_, _, _, _, _)
CollectActions(rules, type, command, currentMode, current) ==
    IF Len(rules) = 0 THEN <<>>
    ELSE (IF Head(rules).enabled /\ matchRule(Head(rules), command, currentMode, current)
          THEN ActionValues(Head(rules).actions, type)
          ELSE <<>>)
         \o CollectActions(Tail(rules), type, command, currentMode, current)

\* no direct call of evaluate has been made
NoEvaluation == [called |-> FALSE, command |-> "", mode |-> "", current |-> 0,
                 outcome |-> [commands |-> <<>>, mode |-> {}, suggestions |-> <<>>]]

\* AutomationEngine.evaluate
evaluate(rules, command, currentMode, current) ==
    LET modes == CollectActions(rules, "set_mode", command, currentMode, current)
    IN [commands |-> CollectActions(rules, "run_command", command, currentMode, current),
        mode |-> IF Len(modes) = 0 THEN {} ELSE {modes[Len(modes)]},
        suggestions |-> CollectActions(rules, "show_hint", command, currentMode, current)]

(***************************************************************************)
(* JarvisRuntime: recognition of the built-in shortcuts                    *)
(***************************************************************************)
MaxCommandLength == 300
RecursionCeiling == 4
HistoryLimit == 120

Modes == {"work", "gaming", "focus", "night"}
appLaunchMap == {"chrome", "vlc", "vscode", "spotify", "notepad", "calc", "terminal", "steam"}

commandSchemaAcceptsShort(rawCommand) == Len(Trim(rawCommand)) <= MaxCommandLength

\* commandSchema = z.string().trim().min(1).max(300)
commandSchemaAccepts(rawCommand) ==
    Len(Trim(rawCommand)) >= 1 /\ Len(Trim(rawCommand)) <= MaxCommandLength

WithoutSlash(s) == IF StartsWith(s, "/") THEN SubSeq(s, 2, Len(s)) ELSE s

\* /^\/?keyword\s+(.+)$/i : the captured group, "" when there is no match
KeywordArgs(s, keyword) == TriggerArgs(WithoutSlash(s), keyword)

\* /^\/?keyword(?:\s+(.+))?$/i
KeywordAlone(s, keyword) == ToLowerCase(WithoutSlash(s)) = keyword

\* /^\/?remind\s+(\d+)\s+(.+)$/i
remindMatch(normalized) ==
    LET args == KeywordArgs(normalized, "remind")
        sp == IndexOf(args, " ")
    IN /\ sp >= 2
       /\ AllDigits(SubSeq(args, 1, sp - 1))
       /\ Len(TrimStart(SubSeq(args, sp, Len(args)))) > 0

\* the clock part of /^\/?alarm\s+(\d{1,2}):(\d{2})(?:\s+(.+))?$/i
AlarmClock(normalized) ==
    LET args == KeywordArgs(normalized, "alarm")
        sp == IndexOf(args, " ")
    IN IF sp = 0 THEN args ELSE SubSeq(args, 1, sp - 1)

alarmMatch(normalized) == ClockMinutes(AlarmClock(normalized)) >= 0

\* atHour < 0 || atHour > 23 || atMinute < 0 || atMinute > 59
alarmTimeValid(normalized) ==
    LET clock == AlarmClock(normalized)
        colon == IndexOf(clock, ":")
    IN /\ ToNumber(SubSeq(clock, 1, colon - 1)) <= 23
       /\ ToNumber(SubSeq(clock, colon + 1, Len(clock))) <= 59

cdMatch(normalized) == KeywordAlone(normalized, "cd") \/ KeywordArgs(normalized, "cd") # ""

pwdMatch(normalized) == KeywordAlone(normalized, "pwd") \/ KeywordAlone(normalized, "cwd")

listMatch(normalized) ==
    \E k \in {"ls", "dir"} : KeywordAlone(normalized, k) \/ KeywordArgs(normalized, k) # ""

shellMatch(normalized) ==
    \E k \in {"cmd", "ps", "powershell", "pwsh"} : KeywordArgs(normalized, k) # ""

\* lower.startsWith("/mode ") with one of the four modes behind it
RequestedMode(normalized) == Trim(ReplaceFirst(ToLowerCase(normalized), "/mode ", ""))

modeMatch(normalized) ==
    StartsWith(ToLowerCase(normalized), "/mode ") /\ RequestedMode(normalized) \in Modes

askMatch(normalized) == StartsWith(ToLowerCase(normalized), "/ask ")

\* the built-in shortcut that takes the command, in the order dispatchCommand tests them
builtinOf(normalized) ==
    LET lower == ToLowerCase(normalized)
    IN IF lower \in {"/time", "time", "what time is it"} THEN "time"
       ELSE IF lower \in {"/greet", "start jarvis", "jarvis start"} THEN "greet"
       ELSE IF remindMatch(normalized) THEN "remind"
       ELSE IF alarmMatch(normalized) THEN "alarm"
       ELSE IF cdMatch(normalized) THEN "cd"
       ELSE IF pwdMatch(normalized) THEN "pwd"
       ELSE IF listMatch(normalized) THEN "ls"
       ELSE IF shellMatch(normalized) THEN "shell"
       ELSE IF modeMatch(normalized) THEN "mode"
       ELSE IF askMatch(normalized) THEN "ask"
       ELSE "none"

\* the stage of dispatchCommand that takes an invocation
resolutionIgnoringDepth(rawCommand, depth) ==
    LET normalized == normalizeSpaces(Trim(rawCommand))
    IN IF ~commandSchemaAccepts(rawCommand) THEN "invalid"
       ELSE IF match(commands, normalized).found THEN "custom"
       ELSE IF findByCommand(normalized, plugins) # 0 THEN "plugin"
       ELSE IF builtinOf(normalized) # "none" THEN builtinOf(normalized)
       ELSE "intent"

resolutionBuiltinFirst(rawCommand, depth) ==
    LET normalized == normalizeSpaces(Trim(rawCommand))
    IN IF depth > RecursionCeiling THEN "blocked"
       ELSE IF ~commandSchemaAccepts(rawCommand) THEN "invalid"
       ELSE IF builtinOf(normalized) # "none" THEN builtinOf(normalized)
       ELSE IF match(commands, normalized).found THEN "custom"
       ELSE IF findByCommand(normalized, plugins) # 0 THEN "plugin"
       ELSE "intent"

resolution(rawCommand, depth) ==
    LET normalized == normalizeSpaces(Trim(rawCommand))
    IN IF depth > RecursionCeiling THEN "blocked"
       ELSE IF ~commandSchemaAccepts(rawCommand) THEN "invalid"
       ELSE IF match(commands, normalized).found THEN "custom"
       ELSE IF findByCommand(normalized, plugins) # 0 THEN "plugin"
       ELSE IF builtinOf(normalized) # "none" THEN builtinOf(normalized)
       ELSE "intent"

(***************************************************************************)
(* JarvisRuntime: the dispatcher                                           *)
(***************************************************************************)
Result(ok, message, confirm) == [ok |-> ok, message |-> message, needsConfirmation |-> confirm]

NoResult == Result(FALSE, "", FALSE)

\* what the caller of runCommand holds: nothing yet, a CommandResponse, or a rejection
Pending == [kind |-> "pending", result |-> NoResult]
Returned(result) == [kind |-> "result", result |-> result]
Threw == [kind |-> "threw", result |-> NoResult]

\* one invocation of dispatchCommand: its arguments, the stage that takes it
\* (the body runs synchronously from the call to that stage) and where it stands
Frame(rawCommand, bypass, depth, writeHistory, source) ==
    [cmd |-> rawCommand, bypass |-> bypass, depth |-> depth,
     writeHistory |-> writeHistory, source |-> source,
     stage |-> resolution(rawCommand, depth),
     normalized |-> IF commandSchemaAccepts(rawCommand)
                    THEN normalizeSpaces(Trim(rawCommand)) ELSE "",
     pc |-> "enter", pending |-> <<>>, result |-> NoResult, name |-> ""]

Top == stack[Len(stack)]
Callers == SubSeq(stack, 1, Len(stack) - 1)
Normalized(f) == f.normalized
At(stage) == Len(stack) > 0 /\ Top.pc = "enter" /\ Top.stage = stage

Take(seq, n) == SubSeq(seq, 1, IF Len(seq) < n THEN Len(seq) ELSE n)

recordCommandAlways(history, command, intent, result, writeHistory) ==
    Take(<<[command |-> command, intent |-> intent, success |-> result.ok,
            resultMessage |-> result.message]>> \o history, HistoryLimit)

\* JarvisRuntime.recordCommand
recordCommand(history, command, intent, result, writeHistory) ==
    IF ~writeHistory THEN history
    ELSE Take(<<[command |-> command, intent |-> intent, success |-> result.ok,
                 resultMessage |-> result.message]>> \o history, HistoryLimit)

SuggestionLimit == 40
CommonCommandLimit == 30

\* JarvisRuntime.pushSuggestion
pushSuggestion(list, text) == Take(<<text>> \o list, SuggestionLimit)

\* for (const suggestion of auto.suggestions) this.state.suggestions.unshift(suggestion)
RECURSIVE unshiftAll(_, _)
unshiftAll(list, hints) ==
    IF hints = <<>> THEN list ELSE unshiftAll(<<Head(hints)>> \o list, Tail(hints))

bumpCommonCommandKeepingRepeats(mem, command) ==
    [mem EXCEPT !.commonCommands = Take(<<command>> \o mem.commonCommands, CommonCommandLimit)]

\* JarvisRuntime.bumpCommonCommand
bumpCommonCommand(mem, command) ==
    [mem EXCEPT !.commonCommands =
        Take(<<command>> \o SelectSeq(mem.commonCommands, LAMBDA item : item # command),
             CommonCommandLimit)]

\* the last line of recordCommand: nothing is bumped when no record is written
remember(mem, command, writeHistory) ==
    IF ~writeHistory THEN mem ELSE bumpCommonCommand(mem, command)

\* state.memory of DEFAULT_STATE
FreshMemory == [commonCommands |-> <<>>, lastMode |-> "work"]

Effect(action, f) == [action |-> action, command |-> Normalized(f), depth |-> f.depth,
                      bypass |-> f.bypass]

\* the invocation on top of the stack returns result to its caller
Finish(result) ==
    /\ stack' = Callers
    /\ ret' = result
    /\ response' = IF Len(stack) = 1 THEN Returned(result) ELSE response
    /\ gated' = (gated \/ result.needsConfirmation)
    /\ UNCHANGED dispatchLog

\* the invocation on top of the stack, now in state f, calls
\* dispatchCommand(rawCommand, bypass, {depth, writeHistory: false, source});
\* when the call stack is exhausted the call throws RangeError, which no frame catches
Call(f, rawCommand, bypass, depth, source, via) ==
    IF Len(stack) < MaxCallStack
    THEN /\ stack' = Append(Callers, f) \o <<Frame(rawCommand, bypass, depth, FALSE, source)>>
         /\ dispatchLog' = Append(dispatchLog,
               [cmd |-> rawCommand, depth |-> depth, via |-> via, callerDepth |-> f.depth])
         /\ UNCHANGED <<ret, response, gated>>
    ELSE /\ stack' = <<>>
         /\ response' = Threw
         /\ UNCHANGED <<ret, dispatchLog, gated>>

\* the records setPluginEnabled has written
PluginToggleRecords(history) ==
    SelectSeq(history, LAMBDA r : r.intent = "system_info" /\ StartsWith(r.command, "plugin "))

\* JarvisRuntime.setPluginEnabled, called between commands (the plugin's id
\* stands for its manifest name in the record)
SetPluginEnabled(pluginId, enabled) ==
    /\ stack = <<>>
    /\ runs < MaxRuns
    /\ Len(PluginToggleRecords(commandHistory)) < MaxToggles
    /\ LET found == {i \in 1..Len(plugins) : plugins[i].id = pluginId}
       IN IF found = {}
          THEN UNCHANGED <<plugins, commandHistory, suggestions, memory>>
          ELSE LET i == CHOOSE j \in found : \A k \in found : j <= k
               IN /\ plugins' = [plugins EXCEPT ![i].enabled = enabled]
                  /\ suggestions' =
                        pushSuggestion(suggestions,
                                       "Plugin " \o plugins[i].id \o
                                       (IF enabled THEN " enabled." ELSE " disabled."))
                  /\ commandHistory' =
                        recordCommand(commandHistory,
                                      "plugin " \o (IF enabled THEN "enable" ELSE "disable")
                                                \o " " \o plugins[i].id,
                                      "system_info",
                                      Result(TRUE, "Plugin updated.", FALSE), TRUE)
                  /\ memory' =
                        remember(memory,
                                 "plugin " \o (IF enabled THEN "enable" ELSE "disable")
                                           \o " " \o plugins[i].id, TRUE)
    /\ UNCHANGED <<routines, automations, mode, executed, stack, ret, response,
                   dispatchLog, gated, runs, guardVars, sideVars, storeVars>>

\* JarvisRuntime.runCommand
RunCommand(rawCommand, bypassConfirmation) ==
    /\ stack = <<>>
    /\ runs < MaxRuns
    /\ runs' = runs + 1
    /\ stack' = <<Frame(rawCommand, bypassConfirmation, 0, TRUE, "user")>>
    /\ dispatchLog' = <<[cmd |-> rawCommand, depth |-> 0, via |-> "top", callerDepth |-> 0]>>
    /\ executed' = <<>>
    /\ response' = Pending
    /\ ret' = NoResult
    /\ gated' = FALSE
    /\ UNCHANGED <<mode, commandHistory, suggestions, memory, guardVars, sideVars, storeVars, configVars>>

\* dispatchCommand, context.depth > 4
RecursionBlocked ==
    /\ At("blocked")
    /\ Finish(Result(FALSE, "Command recursion blocked.", FALSE))
    /\ UNCHANGED <<mode, commandHistory, suggestions, memory, executed, runs, guardVars, sideVars, storeVars, configVars>>

\* dispatchCommand, commandSchema rejects the text
InvalidInput ==
    /\ At("invalid")
    /\ Finish(Result(FALSE, "Invalid command input.", FALSE))
    /\ UNCHANGED <<mode, commandHistory, suggestions, memory, executed, runs, guardVars, sideVars, storeVars, configVars>>

CustomMatch(f) == match(commands, Normalized(f))
CustomTarget(f) == buildTarget(commands[CustomMatch(f).index], CustomMatch(f).args)

\* executeCustomCommand, empty target
CustomEmpty ==
    /\ At("custom")
    /\ CustomTarget(Top) = ""
    /\ LET result == Result(FALSE, "Custom command action is empty.", FALSE)
       IN /\ commandHistory' = recordCommand(commandHistory, Normalized(Top),
                                             "custom_command", result, Top.writeHistory)
          /\ Finish(result)
    /\ memory' = remember(memory, Normalized(Top), Top.writeHistory)
    /\ UNCHANGED <<mode, suggestions, executed, runs, guardVars, sideVars, storeVars, configVars>>

selfReferenceExact(targetCommand, sourceCommand) == targetCommand = sourceCommand

\* targetCommand.toLowerCase() === sourceCommand.toLowerCase()
selfReference(targetCommand, sourceCommand) ==
    ToLowerCase(targetCommand) = ToLowerCase(sourceCommand)

\* executeCustomCommand, target equal to the source command
CustomSelfReference ==
    /\ At("custom")
    /\ CustomTarget(Top) # ""
    /\ selfReference(CustomTarget(Top), Normalized(Top))
    /\ LET result == Result(FALSE, "Custom command points to itself.", FALSE)
       IN /\ commandHistory' = recordCommand(commandHistory, Normalized(Top),
                                             "custom_command", result, Top.writeHistory)
          /\ Finish(result)
    /\ memory' = remember(memory, Normalized(Top), Top.writeHistory)
    /\ UNCHANGED <<mode, suggestions, executed, runs, guardVars, sideVars, storeVars, configVars>>

\* depth: context.depth + 1  (executeCustomCommand)
delegatedDepth(depth) == depth + 1

\* executeCustomCommand, the delegated dispatch starts
CustomDelegate ==
    /\ At("custom")
    /\ CustomTarget(Top) # ""
    /\ ~selfReference(CustomTarget(Top), Normalized(Top))
    /\ Call([Top EXCEPT !.pc = "delegated", !.name = commands[CustomMatch(Top).index].name],
            CustomTarget(Top), Top.bypass, delegatedDepth(Top.depth), Top.source, "custom")
    /\ UNCHANGED <<mode, commandHistory, suggestions, memory, executed, runs, guardVars, sideVars, storeVars, configVars>>

\* the result executeCustomCommand builds from the delegated one
customResult(name, delegated) ==
    Result(delegated.ok,
           IF delegated.ok THEN "Custom command \"" \o name \o "\" executed."
           ELSE "Custom command \"" \o name \o "\" failed: " \o delegated.message,
           FALSE)

\* executeCustomCommand, the delegated dispatch has returned
CustomDelegateReturn ==
    /\ Len(stack) > 0
    /\ Top.pc = "delegated"
    /\ commandHistory' = recordCommand(commandHistory, Normalized(Top), "custom_command",
                                       customResult(Top.name, ret), Top.writeHistory)
    /\ Finish(customResult(Top.name, ret))
    /\ memory' = remember(memory, Normalized(Top), Top.writeHistory)
    /\ UNCHANGED <<mode, suggestions, executed, runs, guardVars, sideVars, storeVars, configVars>>

\* the plugin service's executeCommand: the plugin's normalized answer is
\* ok:true, or ok:false on a fault, a timeout or a blocked call
PluginOutcomes == {Result(TRUE, "Plugin executed.", FALSE),
                   Result(FALSE, "Plugin failed.", FALSE)}

PluginOf(f) == plugins[findByCommand(Normalized(f), plugins)]

\* executePluginCommand, confirmation gate
PluginNeedsConfirmation ==
    /\ At("plugin")
    /\ needsConfirmation(PluginOf(Top).permissionLevel, Top.bypass)
    /\ Finish(Result(FALSE, "Plugin action requires confirmation.", TRUE))
    /\ UNCHANGED <<mode, commandHistory, suggestions, memory, executed, runs, guardVars, sideVars, storeVars, configVars>>

\* executePluginCommand, the plugin runs
PluginExecute ==
    /\ At("plugin")
    /\ ~needsConfirmation(PluginOf(Top).permissionLevel, Top.bypass)
    /\ \E result \in PluginOutcomes :
          /\ executed' = Append(executed, Effect("plugin_command", Top))
          /\ commandHistory' = recordCommand(commandHistory, Normalized(Top),
                                             "plugin_command", result, Top.writeHistory)
          /\ Finish(result)
    /\ memory' = remember(memory, Normalized(Top), Top.writeHistory)
    /\ UNCHANGED <<mode, suggestions, runs, guardVars, sideVars, storeVars, configVars>>

\* the intent a built-in shortcut is recorded under
BuiltinIntent(kind) ==
    CASE kind = "remind" -> "set_reminder"
      [] kind = "alarm" -> "set_alarm"
      [] kind = "ask" -> "unknown"
      [] OTHER -> "system_info"

\* the results a built-in shortcut can produce (the environment decides where
\* the code asks the file system, a child process or the local LLM)
BuiltinOutcomes(kind, normalized) ==
    CASE kind \in {"time", "greet", "pwd", "ask"} -> {Result(TRUE, kind, FALSE)}
      [] kind = "remind" -> {Result(TRUE, "Reminder set", FALSE)}
      [] kind = "alarm" ->
            IF alarmTimeValid(normalized) THEN {Result(TRUE, "Alarm set", FALSE)}
            ELSE {Result(FALSE, "Alarm format invalid. Use /alarm HH:MM [label].", FALSE)}
      [] kind = "cd" -> {Result(TRUE, "Directory changed", FALSE),
                         Result(FALSE, "Directory not found", FALSE)}
      [] kind = "ls" -> {Result(TRUE, "Listing", FALSE),
                         Result(FALSE, "Directory not found", FALSE)}

\* dispatchCommand: /time, /greet, remind, alarm, cd, pwd, ls, /ask
BuiltinShortcut ==
    /\ \E kind \in {"time", "greet", "remind", "alarm", "cd", "pwd", "ls", "ask"} :
          /\ At(kind)
          /\ \E result \in BuiltinOutcomes(kind, Normalized(Top)) :
                /\ executed' = IF kind = "alarm" /\ ~result.ok THEN executed
                               ELSE Append(executed, Effect(kind, Top))
                /\ commandHistory' = recordCommand(commandHistory, Normalized(Top),
                                         BuiltinIntent(kind), result, Top.writeHistory)
                /\ suggestions' =
                      IF kind = "remind" THEN pushSuggestion(suggestions, "Reminder added")
                      ELSE IF kind = "alarm" /\ result.ok
                           THEN pushSuggestion(suggestions, "Alarm scheduled")
                      ELSE suggestions
                /\ Finish(result)
    /\ memory' = remember(memory, Normalized(Top), Top.writeHistory)
    /\ UNCHANGED <<mode, runs, guardVars, sideVars, storeVars, configVars>>

\* dispatchCommand: cmd / ps / powershell / pwsh, confirmation gate
ShellNeedsConfirmation ==
    /\ At("shell")
    /\ needsConfirmation("confirm", Top.bypass)
    /\ Finish(Result(FALSE, "Confirmation needed before running shell command.", TRUE))
    /\ UNCHANGED <<mode, commandHistory, suggestions, memory, executed, runs, guardVars, sideVars, storeVars, configVars>>

\* dispatchCommand: cmd / ps / powershell / pwsh, the shell command runs
ShellExecute ==
    /\ At("shell")
    /\ ~needsConfirmation("confirm", Top.bypass)
    /\ \E result \in {Result(TRUE, "Shell OK", FALSE), Result(FALSE, "Shell failed", FALSE)} :
          /\ executed' = Append(executed, Effect("shell", Top))
          /\ commandHistory' = recordCommand(commandHistory, Normalized(Top),
                                             "system_info", result, Top.writeHistory)
          /\ Finish(result)
    /\ memory' = remember(memory, Normalized(Top), Top.writeHistory)
    /\ UNCHANGED <<mode, suggestions, runs, guardVars, sideVars, storeVars, configVars>>

\* dispatchCommand: /mode <mode>, through setMode
ModeShortcut ==
    /\ At("mode")
    /\ mode' = RequestedMode(Normalized(Top))
    /\ memory' = remember([memory EXCEPT !.lastMode = RequestedMode(Normalized(Top))],
                          Normalized(Top), Top.writeHistory)
    /\ suggestions' = pushSuggestion(suggestions,
                                     "Mode switched to " \o RequestedMode(Normalized(Top)))
    /\ executed' = Append(executed, Effect("mode", Top))
    /\ LET result == Result(TRUE, "Mode updated to " \o RequestedMode(Normalized(Top)) \o ".",
                            FALSE)
       IN /\ commandHistory' = recordCommand(commandHistory, Normalized(Top),
                                             "system_info", result, Top.writeHistory)
          /\ Finish(result)
    /\ UNCHANGED <<runs, guardVars, sideVars, storeVars, configVars>>

\* minute-of-day values nowMinutes() is sampled at
ClockSamples == {120, 720, 1380}

Parsed(f) == parse(Normalized(f))
Required(f) == requiredPermission(Parsed(f).type)

\* routines.find(item => item.name.toLowerCase().includes(routineName.toLowerCase())):
\* index of the first such routine, 0 when there is none
findRoutine(routineName) ==
    LET wanted == ToLowerCase(Trim(routineName))
        hits == {i \in 1..Len(routines) : Includes(ToLowerCase(routines[i].name), wanted)}
    IN IF hits = {} THEN 0 ELSE CHOOSE i \in hits : \A j \in hits : i <= j

\* the results executeIntent can produce for an intent that starts no routine
IntentOutcomes(parsed) ==
    LET app == ToLowerCase(Trim(parsed.app))
    IN CASE parsed.type = "open_app" ->
              IF app = "" THEN {Result(FALSE, "App name missing.", FALSE)}
              ELSE IF StartsWith(app, "http://") \/ StartsWith(app, "https://")
                   THEN {Result(TRUE, "Opening URL", FALSE), Result(FALSE, "URL refused", FALSE)}
              ELSE IF app \notin appLaunchMap
                   THEN {Result(FALSE, "App not in launcher map.", FALSE)}
              ELSE {Result(TRUE, "Launching " \o app, FALSE),
                    Result(FALSE, "Unable to launch " \o app \o ".", FALSE)}
         [] parsed.type \in {"play_media", "pause_media"} ->
              {Result(TRUE, "Media signal sent.", FALSE),
               Result(FALSE, "Unable to send media key on this system.", FALSE)}
         [] parsed.type = "set_reminder" -> {Result(TRUE, "Reminder set", FALSE)}
         [] parsed.type = "set_alarm" -> {Result(TRUE, "Alarm set", FALSE)}
         [] parsed.type = "run_routine" -> {Result(FALSE, "Routine not found.", FALSE)}
         [] parsed.type = "list_reminders" -> {Result(TRUE, "Pending reminders", FALSE)}
         [] parsed.type = "system_info" -> {Result(TRUE, "Telemetry", FALSE)}
         [] OTHER -> {Result(FALSE, "Command not recognized.", FALSE)}

remainingFollowUpsNone(pending) == <<>>

\* for (const autoCommand of auto.commands): the commands still to dispatch
\* once the first of pending has been taken
remainingFollowUps(pending) == Tail(pending)

\* depth: context.depth + 1  (automation follow-up)
followUpDepth(depth) == depth + 1

\* depth: 1  (executeIntent, routine step)
routineStepDepth(depth) == 1

\* executeIntent, set_reminder and set_alarm: the suggestion they push
afterIntent(list, type) ==
    IF type = "set_reminder" THEN pushSuggestion(list, "Reminder added")
    ELSE IF type = "set_alarm" THEN pushSuggestion(list, "Alarm scheduled")
    ELSE list

\* dispatchCommand after executeIntent has returned result (lines 1490-1511):
\* history record, automation evaluation, mode change, follow-up commands
AfterExecute(f, result) ==
    \E current \in ClockSamples :
       \E auto \in {evaluate(automations, Normalized(f), mode, current)} :
          /\ commandHistory' = recordCommand(commandHistory, Normalized(f),
                                             Parsed(f).type, result, f.writeHistory)
          /\ memory' = remember(memory, Normalized(f), f.writeHistory)
          /\ suggestions' = unshiftAll(afterIntent(suggestions, Parsed(f).type),
                                       auto.suggestions)
          /\ mode' = IF auto.mode # {} /\ Value(auto.mode) # "" THEN Value(auto.mode) ELSE mode
          /\ IF Len(auto.commands) = 0
             THEN Finish(result)
             ELSE Call([f EXCEPT !.pc = "automation",
                                 !.pending = remainingFollowUps(auto.commands),
                                 !.result = result],
                       Head(auto.commands), TRUE, followUpDepth(f.depth), "system",
                       "automation")

\* dispatchCommand: the guard refuses the intent's permission level
IntentPermissionDenied ==
    /\ At("intent")
    /\ ~canRun(runtimeLevel, Required(Top))
    /\ LET result == Result(FALSE, "Permission denied.", FALSE)
       IN /\ commandHistory' = recordCommand(commandHistory, Normalized(Top),
                                             Parsed(Top).type, result, Top.writeHistory)
          /\ Finish(result)
    /\ memory' = remember(memory, Normalized(Top), Top.writeHistory)
    /\ UNCHANGED <<mode, suggestions, executed, runs, guardVars, sideVars, storeVars, configVars>>

\* dispatchCommand: the confirmation gate of the intent path
IntentNeedsConfirmation ==
    /\ At("intent")
    /\ canRun(runtimeLevel, Required(Top))
    /\ needsConfirmation(Required(Top), Top.bypass)
    /\ Finish(Result(FALSE,
                     "Confirmation needed for this action. Run again with confirmation.", TRUE))
    /\ UNCHANGED <<mode, commandHistory, suggestions, memory, executed, runs, guardVars, sideVars, storeVars, configVars>>

IntentRuns(f) ==
    /\ canRun(runtimeLevel, Required(f))
    /\ ~needsConfirmation(Required(f), f.bypass)

\* dispatchCommand: executeIntent for an intent that starts no routine step
IntentExecute ==
    /\ At("intent")
    /\ IntentRuns(Top)
    /\ \/ Parsed(Top).type # "run_routine"
       \/ findRoutine(Parsed(Top).name) = 0
       \/ Len(routines[findRoutine(Parsed(Top).name)].steps) = 0
    /\ \E result \in
          IF Parsed(Top).type = "run_routine" /\ findRoutine(Parsed(Top).name) # 0
          THEN {Result(TRUE, "Routine executed.", FALSE)}
          ELSE IntentOutcomes(Parsed(Top)) :
          /\ executed' = Append(executed, Effect(Parsed(Top).type, Top))
          /\ AfterExecute(Top, result)
    /\ UNCHANGED <<runs, guardVars, sideVars, storeVars, configVars>>

\* executeIntent, run_routine: the first step is dispatched
RoutineBegin ==
    /\ At("intent")
    /\ IntentRuns(Top)
    /\ Parsed(Top).type = "run_routine"
    /\ findRoutine(Parsed(Top).name) # 0
    /\ LET routine == routines[findRoutine(Parsed(Top).name)]
       IN /\ Len(routine.steps) > 0
          /\ executed' = Append(executed, Effect("run_routine", Top))
          /\ Call([Top EXCEPT !.pc = "routine", !.pending = Tail(routine.steps),
                              !.name = routine.name],
                  Head(routine.steps), TRUE, routineStepDepth(Top.depth), "system", "routine")
    /\ UNCHANGED <<mode, commandHistory, suggestions, memory, runs, guardVars, sideVars, storeVars, configVars>>

\* executeIntent, run_routine: a step has returned and the next one is dispatched
RoutineNextStep ==
    /\ Len(stack) > 0
    /\ Top.pc = "routine"
    /\ Len(Top.pending) > 0
    /\ Call([Top EXCEPT !.pending = Tail(Top.pending)],
            Head(Top.pending), TRUE, routineStepDepth(Top.depth), "system", "routine")
    /\ UNCHANGED <<mode, commandHistory, suggestions, memory, executed, runs, guardVars, sideVars, storeVars, configVars>>

\* executeIntent, run_routine: the last step has returned
RoutineEnd ==
    /\ Len(stack) > 0
    /\ Top.pc = "routine"
    /\ Len(Top.pending) = 0
    /\ AfterExecute(Top, Result(TRUE, "Routine \"" \o Top.name \o "\" executed.", FALSE))
    /\ UNCHANGED <<executed, runs, guardVars, sideVars, storeVars, configVars>>

\* dispatchCommand: a follow-up command has returned and the next one is dispatched
AutomationNext ==
    /\ Len(stack) > 0
    /\ Top.pc = "automation"
    /\ Len(Top.pending) > 0
    /\ Call([Top EXCEPT !.pending = remainingFollowUps(Top.pending)],
            Head(Top.pending), TRUE, followUpDepth(Top.depth), "system", "automation")
    /\ UNCHANGED <<mode, commandHistory, suggestions, memory, executed, runs, guardVars, sideVars, storeVars, configVars>>

\* dispatchCommand: the last follow-up command has returned
AutomationEnd ==
    /\ Len(stack) > 0
    /\ Top.pc = "automation"
    /\ Len(Top.pending) = 0
    /\ Finish(Top.result)
    /\ UNCHANGED <<mode, commandHistory, suggestions, memory, executed, runs, guardVars, sideVars, storeVars, configVars>>

(***************************************************************************)
(* Configurations and specifications                                       *)
(***************************************************************************)
\* custom commands as create stores them (newest first)
ConfiguredCommands == <<
    StoredCommand("cc_c", "Start", "start", "/time", FALSE, TRUE),
    StoredCommand("cc_b", "Start Sprint", "start sprint", "/greet", FALSE, TRUE),
    StoredCommand("cc_a", "Sprint Now", "start sprint now", "/ask now", FALSE, FALSE),
    StoredCommand("cc_d", "/Note All", "na", "/pwd", FALSE, TRUE),
    StoredCommand("cc_9", "Hop", "hop", "{args}", FALSE, TRUE),
    StoredCommand("cc_8", "Plug", "pl", "/plug run", FALSE, TRUE),
    StoredCommand("cc_7", "Go", "go", "open", TRUE, TRUE),
    StoredCommand("cc_6", "Nil", "nil", "", FALSE, TRUE),
    StoredCommand("cc_5", "Sh", "sh", "/cmd dir", FALSE, TRUE),
    StoredCommand("cc_4", "Web", "web", "open chrome", FALSE, TRUE),
    StoredCommand("cc_3", "Me", "me", "ME", FALSE, TRUE),
    StoredCommand("cc_2", "Pong", "pong", "ping", FALSE, TRUE),
    StoredCommand("cc_1", "Ping", "ping", "pong", FALSE, TRUE) >>

ConfiguredPlugins == <<
    [id |-> "plug", entryCommand |-> "/plug", permissionLevel |-> "admin", enabled |-> TRUE,
     installedAtIso |-> 0],
    [id |-> "note", entryCommand |-> "/note", permissionLevel |-> "safe", enabled |-> TRUE,
     installedAtIso |-> 0],
    [id |-> "cwd", entryCommand |-> "/cwd", permissionLevel |-> "safe", enabled |-> TRUE,
     installedAtIso |-> 0] >>

ConfiguredRoutines == <<
    [name |-> "loop", steps |-> <<"run routine loop">>],
    [name |-> "morning", steps |-> <<"system info", "/mode focus">>] >>

Condition(type, value) == [type |-> type, value |-> value]
RuleAction(type, value) == [type |-> type, value |-> value]

ConfiguredAutomations == <<
    [name |-> "Status echo", enabled |-> TRUE,
     conditions |-> <<Condition("contains_command", "status")>>,
     actions |-> <<RuleAction("run_command", "status")>>],
    [name |-> "Gaming mode helper", enabled |-> TRUE,
     conditions |-> <<Condition("contains_command", "open steam")>>,
     actions |-> <<RuleAction("set_mode", "gaming"), RuleAction("show_hint", "Gaming mode active")>>],
    [name |-> "Telemetry follow-ups", enabled |-> TRUE,
     conditions |-> <<Condition("contains_command", "telemetry"), Condition("mode_is", "work")>>,
     actions |-> <<RuleAction("run_command", "/time"), RuleAction("run_command", "music on")>>],
    [name |-> "Night hint", enabled |-> TRUE,
     conditions |-> <<Condition("time_range", "22:00-06:00")>>,
     actions |-> <<RuleAction("show_hint", "Late")>>],
    [name |-> "Browser on greeting", enabled |-> TRUE,
     conditions |-> <<Condition("contains_command", "hello")>>,
     actions |-> <<RuleAction("run_command", "open chrome")>>] >>

RECURSIVE Repeat(_, _)
Repeat(s, n) ==
    IF n = 0 THEN ""
    ELSE IF n % 2 = 1 THEN s \o Repeat(s, n - 1)
    ELSE LET half == Repeat(s, n \div 2) IN half \o half

\* a text over the schema's length limit that begins with a stored trigger
OversizedInput == "ping " \o Repeat("a", MaxCommandLength)

\* the plugin ids setPluginEnabled is called with
TogglePluginIds == {"note", "absent"}

\* the command texts a caller submits
RunInputs == {OversizedInput,
              "ping", "me", "web", "sh", "nil", "go chrome", "pl", "/plug x", "/note hi",
              "/cmd dir", "run routine loop", "run routine morning", "status",
              "open steam", "open chrome", "  ", "/time", "remind 5 tea", "/alarm 7:30",
              "/alarm 25:00", "/cd x", "ls", "/mode focus", "/ask hi", "telemetry", "hello",
              "hop hop hop hop /plug x", "hop hop hop hop hop /plug x",
              "hop hop hop hop hop /cmd dir", "hop hop hop hop hop open chrome",
              "hop run routine morning", "start sprint", "Start  Sprint now",
              "start sprint now", "sprint now", "hop $&", "web now",
              "/ask status", "/note status", "start jarvis", "/note all", "/cwd", "pwd",
              "list reminders", "Show  Reminders", "launch vlc"}

\* wakeCooldownMs in ticks of the clock
WakeCooldownTicks == 1

\* new VoiceService(options): disabled, no window, nothing queued or dispatched;
\* lastWakeAtMs is 0 and the clock already stands past the cooldown.
\* loops are the drainQueue calls suspended in an await, pushes, lateWork and
\* the stale mark of a loop are observations.
VoiceConstructed ==
    [enabled |-> FALSE, now |-> WakeCooldownTicks, commandWindowUntil |-> 0, wakes |-> 0,
     dispatched |-> <<>>, inFlight |-> 0, sinceWake |-> 0, calls |-> 0, transcript |-> "",
     processing |-> FALSE, chunkQueue |-> <<>>, pendingAudioChunks |-> 0,
     wakeHits |-> 0, lastWakeAtMs |-> 0, lastError |-> FALSE,
     loops |-> <<>>, pushes |-> 0, lateWork |-> FALSE]

\* buildDefaultBackendOptions() with no environment variable set; every number
\* is held in thousandths
OptionDefaults ==
    [wakeRmsThreshold |-> 45, wakeRequiredHits |-> 2000, wakeCooldownMs |-> 3500000,
     commandWindowMs |-> 7000000, timeoutMs |-> 4500000]

NoOptionCall == [op |-> "none", field |-> "", value |-> [kind |-> "finite", milli |-> 0]]

\* new BackendOptionsService(filePath): options are the defaults, init not yet called
OptionsConstructed ==
    [current |-> OptionDefaults, stored |-> OptionDefaults, initialised |-> FALSE,
     calls |-> 0, last |-> NoOptionCall]

\* options.strictOffline ?? true, and no URL opened yet
OfflineIdle == [strictOffline |-> TRUE, opens |-> <<>>]

\* the plugin sandbox before any call
SandboxIdle == [phase |-> "idle", entry |-> "", behaviour |-> "", elapsed |-> 0,
                codeRan |-> FALSE, networkIo |-> FALSE, terminated |-> FALSE,
                starts |-> 0, result |-> NoResult]

\* reloadPlugins has not been called
NoReload == [calls |-> 0, previous |-> <<>>, found |-> <<>>]

\* nothing is running and the components exercised on their own are as built
InitRun ==
    /\ probeLog = <<>>
    /\ mode = "work"
    /\ executed = <<>>
    /\ stack = <<>>
    /\ ret = NoResult
    /\ response = Pending
    /\ dispatchLog = <<>>
    /\ gated = FALSE
    /\ runs = 0
    /\ evaluation = NoEvaluation
    /\ sandbox = SandboxIdle
    /\ parseLog = <<>>
    /\ voice = VoiceConstructed
    /\ offline = OfflineIdle
    /\ options = OptionsConstructed
    /\ reload = NoReload

\* DEFAULT_STATE: no history, no suggestions, an empty memory
InitIdle ==
    /\ InitRun
    /\ commandHistory = <<>>
    /\ suggestions = <<>>
    /\ memory = FreshMemory

\* the guard, the store and the configuration after init()
InitConfigured(ceiling) ==
    /\ runtimeLevel = ceiling
    /\ commands = ConfiguredCommands
    /\ persisted = ConfiguredCommands
    /\ nextId = Len(ConfiguredCommands)
    /\ storeResult = "ok"
    /\ storeCall = NoCall
    /\ plugins = ConfiguredPlugins
    /\ routines = ConfiguredRoutines
    /\ automations = ConfiguredAutomations

\* the runtime after init() for a guard built with the given ceiling
InitWith(ceiling) ==
    /\ InitConfigured(ceiling)
    /\ InitIdle

\* the runtime as it is built: guard = new PermissionGuard("admin")
Init == InitWith("admin")

\* under the ceiling "admin" canRun never refuses, so IntentPermissionDenied is
\* taken only in NextCeiling below
Next ==
    \/ \E rawCommand \in RunInputs, bypass \in BOOLEAN : RunCommand(rawCommand, bypass)
    \/ \E pluginId \in TogglePluginIds, enabled \in BOOLEAN : SetPluginEnabled(pluginId, enabled)
    \/ RecursionBlocked
    \/ InvalidInput
    \/ CustomEmpty
    \/ CustomSelfReference
    \/ CustomDelegate
    \/ CustomDelegateReturn
    \/ PluginNeedsConfirmation
    \/ PluginExecute
    \/ BuiltinShortcut
    \/ ShellNeedsConfirmation
    \/ ShellExecute
    \/ ModeShortcut
    \/ IntentNeedsConfirmation
    \/ IntentExecute
    \/ RoutineBegin
    \/ RoutineNextStep
    \/ RoutineEnd
    \/ AutomationNext
    \/ AutomationEnd

Spec == Init /\ [][Next]_vars

\* the same runtime with its guard built with any ceiling PermissionGuard accepts
InitCeiling == \E ceiling \in Levels : InitWith(ceiling)

NextCeiling ==
    \/ Next
    \/ IntentPermissionDenied

SpecCeiling == InitCeiling /\ [][NextCeiling]_vars

\* the decimal text of a number below 100
NumberText(n) ==
    IF n < 10 THEN SubSeq(Digits, n + 1, n + 1)
    ELSE SubSeq(Digits, (n \div 10) + 1, (n \div 10) + 1) \o
         SubSeq(Digits, (n % 10) + 1, (n % 10) + 1)

\* the thirty commands a long-running assistant has seen, the last one first
SeasonedCommand(k) == IF k = 7 THEN "/time" ELSE "/ask " \o NumberText(k)

SeasonedRecord(k) ==
    IF k = 7 THEN [command |-> "/time", intent |-> "system_info", success |-> TRUE,
                   resultMessage |-> "time"]
    ELSE [command |-> SeasonedCommand(k), intent |-> "unknown", success |-> TRUE,
          resultMessage |-> "ask"]

\* the state file of a long-running assistant: the thirty commands were run in
\* turn, four rounds and more, and setMode was called forty times and more,
\* the last call with "work"; every list stands at the length its slice leaves
InitSeasoned ==
    /\ InitConfigured("admin")
    /\ InitRun
    /\ commandHistory = [i \in 1..HistoryLimit |-> SeasonedRecord(((i - 1) % CommonCommandLimit) + 1)]
    /\ suggestions = [i \in 1..SuggestionLimit |->
                         IF i % 2 = 1 THEN "Mode switched to work" ELSE "Mode switched to focus"]
    /\ memory = [commonCommands |-> [k \in 1..CommonCommandLimit |-> SeasonedCommand(k)],
                 lastMode |-> "work"]

SpecSeasoned == InitSeasoned /\ [][Next]_vars

MaxReloads == 2       \* reloadPlugins calls per behaviour

Manifest(id, entryCommand, permissionLevel) ==
    [id |-> id, entryCommand |-> entryCommand, permissionLevel |-> permissionLevel]

\* a folder without manifest.json, or with one that pluginManifestSchema rejects
NoManifest == Manifest("", "", "safe")

\* what a folder of the plugin directory can hold
FolderContents == {Manifest("note", "/note", "safe"), Manifest("cwd", "/cwd", "safe"),
                   Manifest("fresh", "/fresh", "confirm"), NoManifest}

MaxFolders == 3

\* the plugin directory as readdirSync lists it
PluginDirs == UNION {[1..n -> FolderContents] : n \in 0..MaxFolders}

\* PluginService.loadPlugins: every folder with a valid manifest, enabled, installed now
loadPlugins(dir, now) ==
    LET valid == SelectSeq(dir, LAMBDA folder : folder # NoManifest)
    IN [i \in 1..Len(valid) |->
          [id |-> valid[i].id, entryCommand |-> valid[i].entryCommand,
           permissionLevel |-> valid[i].permissionLevel, enabled |-> TRUE,
           installedAtIso |-> now]]

\* JarvisRuntime.loadPluginsWithState: new Map(...) keeps, for an id, the last
\* of the previous entries that carry it
loadPluginsWithState(previous, loaded) ==
    [i \in 1..Len(loaded) |->
        LET known == {j \in 1..Len(previous) : previous[j].id = loaded[i].id}
        IN IF known = {} THEN loaded[i]
           ELSE LET found == previous[CHOOSE j \in known : \A k \in known : k <= j]
                IN [loaded[i] EXCEPT !.enabled = found.enabled,
                                     !.installedAtIso = found.installedAtIso]]

\* JarvisRuntime.reloadPlugins, called between commands; the clock stands at
\* the number of the call
ReloadPlugins(dir) ==
    /\ stack = <<>>
    /\ reload.calls < MaxReloads
    /\ plugins' = loadPluginsWithState(plugins, loadPlugins(dir, reload.calls + 1))
    /\ suggestions' = pushSuggestion(suggestions,
                          "Loaded " \o NumberText(Len(plugins')) \o " plugin(s).")
    /\ reload' = [calls |-> reload.calls + 1, previous |-> plugins, found |-> dir]
    /\ UNCHANGED <<routines, automations, mode, commandHistory, memory, executed, stack, ret,
                   response, dispatchLog, gated, runs, evaluation, sandbox, parseLog, voice,
                   offline, options, guardVars, storeVars>>

NextPlugins ==
    \/ \E dir \in PluginDirs : ReloadPlugins(dir)
    \/ \E pluginId \in TogglePluginIds, enabled \in BOOLEAN : SetPluginEnabled(pluginId, enabled)

SpecPlugins == Init /\ [][NextPlugins]_vars

\* the custom command store on its own, constructed and not yet initialised
InitStore ==
    /\ runtimeLevel = "admin"
    /\ commands = <<>>
    /\ persisted \in StoredFiles
    /\ nextId = 0
    /\ storeResult = "constructed"
    /\ storeCall = NoCall
    /\ plugins = <<>>
    /\ routines = <<>>
    /\ automations = <<>>
    /\ InitIdle

\* init is the first call (JarvisRuntime.init), the other calls follow it
NextStore ==
    \/ \E seed \in StoreSeeds : StoreInit(seed)
    \/ /\ storeResult # "constructed"
       /\ \/ \E name \in StoreNames, trigger \in StoreTriggers, action \in StoreActions :
                StoreCreate(name, trigger, action, FALSE)
          \/ \E id \in StoreIds, name \in OptionalOf(StoreNames),
                trigger \in OptionalOf(StoreTriggers), fields \in StoreFieldUpdates :
                StoreUpdate(id, name, trigger, fields[1], fields[2], fields[3])
          \/ \E id \in StoreIds : StoreDelete(id)

SpecStore == InitStore /\ [][NextStore]_vars

\* the permission guard on its own, for every ceiling it can be built with
InitGuard ==
    /\ runtimeLevel \in Levels
    /\ commands = <<>>
    /\ persisted = <<>>
    /\ nextId = 0
    /\ storeResult = "ok"
    /\ storeCall = NoCall
    /\ plugins = <<>>
    /\ routines = <<>>
    /\ automations = <<>>
    /\ InitIdle

NextGuard ==
    \/ \E level \in Levels : CallCanRun(level)
    \/ \E level \in Levels, bypass \in BOOLEAN : CallNeedsConfirmation(level, bypass)

SpecGuard == InitGuard /\ [][NextGuard]_vars

(***************************************************************************)
(* The plugin sandbox (PluginService.executeCommand)                       *)
(***************************************************************************)
\* seconds of wall-clock time a plugin call may take
PluginTimeout == 4

\* the segments of a path written with "/"
RECURSIVE SplitPath(_)
SplitPath(path) ==
    LET slash == IndexOf(path, "/")
    IN IF slash = 0 THEN <<path>>
       ELSE <<SubSeq(path, 1, slash - 1)>> \o SplitPath(SubSeq(path, slash + 1, Len(path)))

\* canonical form of a list of segments appended to the segments in done
RECURSIVE Canonical(_, _)
Canonical(segments, done) ==
    IF Len(segments) = 0 THEN done
    ELSE IF Head(segments) \in {"", "."} THEN Canonical(Tail(segments), done)
    ELSE IF Head(segments) = ".."
         THEN Canonical(Tail(segments), SubSeq(done, 1, Len(done) - 1))
    ELSE Canonical(Tail(segments), Append(done, Head(segments)))

\* the entry resolved and canonicalized against the plugin's own directory
resolveEntry(pluginDir, entry) == Canonical(pluginDir \o SplitPath(entry), <<>>)

insidePluginDirUnchecked(pluginDir, resolved) == TRUE

\* the directory-traversal guard
insidePluginDir(pluginDir, resolved) ==
    /\ Len(resolved) > Len(pluginDir)
    /\ SubSeq(resolved, 1, Len(pluginDir)) = pluginDir

deadlineNever(elapsed) == FALSE

\* the wall-clock timeout has elapsed
deadlineReached(elapsed) == elapsed >= PluginTimeout

networkBlockedSilently(behaviour) == Result(TRUE, "Plugin executed.", FALSE)

\* what a call of a networking stand-in (fetch, XMLHttpRequest, WebSocket, a
\* networking module) makes of the plugin call
networkBlocked(behaviour) == Result(FALSE, "Offline mode blocked " \o behaviour \o ".", FALSE)

SandboxPluginDir == <<"plugins", "hello">>

\* the files on disk
SandboxFiles == {<<"plugins", "hello", "index.js">>, <<"plugins", "hello", "lib", "main.js">>,
                 <<"plugins", "other", "index.js">>, <<"escape.js">>}

\* manifest.entry values
SandboxEntries == {"index.js", "./lib/../lib/main.js", "missing.js", "../../escape.js",
                   "../other/index.js", "lib/../../hello/index.js"}

\* what the plugin's handle function does when it runs
SandboxBehaviours == {"returns", "fails", "throws", "fetch", "WebSocket", "hangs"}

SandboxFinish(result) ==
    sandbox' = [sandbox EXCEPT !.phase = "done", !.result = result]

\* executeCommand up to the start of the worker
SandboxExecute(entry, behaviour) ==
    /\ sandbox.phase = "idle"
    /\ LET resolved == resolveEntry(SandboxPluginDir, entry)
           call == [sandbox EXCEPT !.entry = entry, !.behaviour = behaviour]
       IN IF ~insidePluginDir(SandboxPluginDir, resolved)
          THEN sandbox' = [call EXCEPT !.phase = "done",
                              !.result = Result(FALSE, "Plugin entry escapes its directory.", FALSE)]
          ELSE IF resolved \notin SandboxFiles
          THEN sandbox' = [call EXCEPT !.phase = "done",
                              !.result = Result(FALSE, "Plugin entry not found.", FALSE)]
          ELSE sandbox' = [call EXCEPT !.phase = "running", !.codeRan = TRUE,
                              !.starts = sandbox.starts + 1]
    /\ UNCHANGED <<reload, options, offline, evaluation, parseLog, voice, guardVars, storeVars, configVars, runVars>>

\* the plugin's handle function returns; the answer is normalized
WorkerReturns ==
    /\ sandbox.phase = "running"
    /\ sandbox.behaviour \in {"returns", "fails"}
    /\ SandboxFinish(IF sandbox.behaviour = "returns"
                     THEN Result(TRUE, "Plugin executed.", FALSE)
                     ELSE Result(FALSE, "Plugin failed.", FALSE))
    /\ UNCHANGED <<reload, options, offline, evaluation, parseLog, voice, guardVars, storeVars, configVars, runVars>>

\* the plugin's handle function throws
WorkerThrows ==
    /\ sandbox.phase = "running"
    /\ sandbox.behaviour = "throws"
    /\ SandboxFinish(Result(FALSE, "Plugin failed.", FALSE))
    /\ UNCHANGED <<reload, options, offline, evaluation, parseLog, voice, guardVars, storeVars, configVars, runVars>>

\* the plugin calls a networking primitive: the stand-in fails at once
WorkerNetwork ==
    /\ sandbox.phase = "running"
    /\ sandbox.behaviour \in {"fetch", "WebSocket"}
    /\ SandboxFinish(networkBlocked(sandbox.behaviour))
    /\ UNCHANGED <<reload, options, offline, evaluation, parseLog, voice, guardVars, storeVars, configVars, runVars>>

\* a second of wall-clock time passes while the worker runs
WorkerTick ==
    /\ sandbox.phase = "running"
    /\ ~deadlineReached(sandbox.elapsed)
    /\ sandbox' = [sandbox EXCEPT !.elapsed = sandbox.elapsed + 1]
    /\ UNCHANGED <<reload, options, offline, evaluation, parseLog, voice, guardVars, storeVars, configVars, runVars>>

\* the timeout fires: the worker is terminated and the call fails
WorkerTimeout ==
    /\ sandbox.phase = "running"
    /\ deadlineReached(sandbox.elapsed)
    /\ sandbox' = [sandbox EXCEPT !.phase = "done", !.terminated = TRUE,
                       !.result = Result(FALSE, "Plugin timed out.", FALSE)]
    /\ UNCHANGED <<reload, options, offline, evaluation, parseLog, voice, guardVars, storeVars, configVars, runVars>>

InitSandbox ==
    /\ runtimeLevel = "admin"
    /\ commands = <<>>
    /\ persisted = <<>>
    /\ nextId = 0
    /\ storeResult = "ok"
    /\ storeCall = NoCall
    /\ plugins = ConfiguredPlugins
    /\ routines = <<>>
    /\ automations = <<>>
    /\ InitIdle

NextSandbox ==
    \/ \E entry \in SandboxEntries, behaviour \in SandboxBehaviours :
          SandboxExecute(entry, behaviour)
    \/ WorkerReturns
    \/ WorkerThrows
    \/ WorkerNetwork
    \/ WorkerTick
    \/ WorkerTimeout

SpecSandbox == InitSandbox /\ [][NextSandbox]_vars

\* time passes and the timer fires
SpecSandboxLive == SpecSandbox /\ WF_vars(WorkerTick) /\ WF_vars(WorkerTimeout)

(***************************************************************************)
(* VoiceService: transcripts, the wake word and the command window         *)
(***************************************************************************)
\* normalizeText(value) = value.trim().replace(/\s+/g, " ")
normalizeText(value) == normalizeSpaces(Trim(value))

\* options.wakeWord ?? "jarvis"
wakeWord == "jarvis"

\* commandWindowMs in ticks of the clock
CommandWindowTicks == 2

\* processCommandTranscript: the command taken from a transcript, "" for none
commandOfTranscript(rawTranscript) ==
    LET transcript == normalizeText(rawTranscript)
    IN IF StartsWith(ToLowerCase(transcript), wakeWord)
       THEN normalizeText(SubSeq(transcript, Len(wakeWord) + 1, Len(transcript)))
       ELSE transcript

\* processCommandTranscript up to the call of onCommand, applied to the
\* service as armed or not by the caller
processCommandTranscript(service, rawTranscript) ==
    IF commandOfTranscript(rawTranscript) = "" THEN service
    ELSE [service EXCEPT !.dispatched = Append(@, commandOfTranscript(rawTranscript)),
                         !.inFlight = @ + 1,
                         !.sinceWake = @ + 1]

\* armCommandWindow: the window is opened and the wake event emitted
armCommandWindow(service) ==
    [service EXCEPT !.commandWindowUntil = service.now + CommandWindowTicks,
                    !.wakes = @ + 1,
                    !.sinceWake = 0]

\* simulateTranscript up to its first suspension
simulateTranscript(service, rawTranscript) ==
    LET transcript == normalizeText(rawTranscript)
        wakeIndex == IndexOf(ToLowerCase(transcript), wakeWord)
        afterWake == normalizeText(SubSeq(transcript, wakeIndex + Len(wakeWord), Len(transcript)))
    IN IF transcript = "" THEN service
       ELSE IF wakeIndex > 0
       THEN IF afterWake # ""
            THEN processCommandTranscript(armCommandWindow(service), afterWake)
            ELSE armCommandWindow(service)
       ELSE IF service.now < service.commandWindowUntil
            THEN processCommandTranscript(service, transcript)
            ELSE service

\* the transcripts the service is given
VoiceTranscripts == {"jarvis open chrome", "Hey  Jarvis  open steam", "jarvis", "open steam",
                     "status", "jarvis jarvis open chrome", "  "}

\* VoiceService.setEnabled
VoiceSetEnabled(enabled) ==
    /\ voice.calls < MaxTranscripts
    /\ voice' = [voice EXCEPT !.enabled = enabled,
                              !.lastError = FALSE,
                              !.commandWindowUntil = IF enabled THEN @ ELSE 0,
                              !.chunkQueue = IF enabled THEN @ ELSE <<>>,
                              !.pendingAudioChunks = IF enabled THEN @ ELSE 0,
                              !.wakeHits = IF enabled THEN @ ELSE 0]
    /\ UNCHANGED <<reload, options, offline, evaluation, sandbox, parseLog, guardVars, storeVars, configVars, runVars>>

\* VoiceService.simulateTranscript is called; it runs to the call of onCommand
SimulateTranscript(rawTranscript) ==
    /\ voice.calls < MaxTranscripts
    /\ voice' = [simulateTranscript(voice, rawTranscript) EXCEPT
                     !.calls = voice.calls + 1, !.transcript = rawTranscript]
    /\ UNCHANGED <<reload, options, offline, evaluation, sandbox, parseLog, guardVars, storeVars, configVars, runVars>>

\* onCommand has answered: processCommandTranscript resumes and closes the window
VoiceCommandDone ==
    /\ voice.inFlight > 0
    /\ voice' = [voice EXCEPT !.inFlight = @ - 1, !.commandWindowUntil = 0]
    /\ UNCHANGED <<reload, options, offline, evaluation, sandbox, parseLog, guardVars, storeVars, configVars, runVars>>

\* Date.now() moves on
VoiceTick ==
    /\ voice.now < MaxVoiceClock
    /\ voice' = [voice EXCEPT !.now = @ + 1]
    /\ UNCHANGED <<reload, options, offline, evaluation, sandbox, parseLog, guardVars, storeVars, configVars, runVars>>

InitVoice ==
    /\ runtimeLevel = "admin"
    /\ commands = <<>>
    /\ persisted = <<>>
    /\ nextId = 0
    /\ storeResult = "ok"
    /\ storeCall = NoCall
    /\ plugins = <<>>
    /\ routines = <<>>
    /\ automations = <<>>
    /\ InitIdle

NextVoice ==
    \/ \E enabled \in BOOLEAN : VoiceSetEnabled(enabled)
    \/ \E rawTranscript \in VoiceTranscripts : SimulateTranscript(rawTranscript)
    \/ VoiceCommandDone
    \/ VoiceTick

SpecVoice == InitVoice /\ [][NextVoice]_vars

(***************************************************************************)
(* VoiceService: the audio queue and its drain loops                       *)
(***************************************************************************)
\* wakeRequiredHits (default 2)
WakeRequiredHits == 2

\* what a pushed chunk decodes to: an empty buffer, bytes rmsFromPcm16Wav
\* answers null for, a wav below the wake threshold, a wav at or above it
AudioChunks == {"empty", "garbled", "quiet", "loud"}

\* what transcribeAudio answers: "" for null
AudioTranscripts == {"", "open chrome", "jarvis"}

\* detectWakeOnset, and armCommandWindow when it answers true
wakeOnset(service, chunk) ==
    IF service.now - service.lastWakeAtMs < WakeCooldownTicks THEN service
    ELSE IF chunk = "garbled" THEN [service EXCEPT !.wakeHits = 0]
    ELSE LET hits == IF chunk = "loud" THEN service.wakeHits + 1
                     ELSE IF service.wakeHits > 0 THEN service.wakeHits - 1 ELSE 0
         IN IF hits < WakeRequiredHits THEN [service EXCEPT !.wakeHits = hits]
            ELSE armCommandWindow([service EXCEPT !.wakeHits = 0,
                                                  !.lastWakeAtMs = service.now])

\* drainQueue from the test of its while loop to its next await (suspended)
\* or to its end; stale says the loop was suspended across a destroy
RECURSIVE drainLoop(_, _)
drainLoop(service, stale) ==
    IF ~(service.enabled /\ service.chunkQueue # <<>>)
    THEN [service |-> [service EXCEPT !.processing = FALSE,
                                      !.pendingAudioChunks = Len(service.chunkQueue)],
          suspended |-> FALSE]
    ELSE LET next == Head(service.chunkQueue)
             taken == [service EXCEPT !.chunkQueue = Tail(@),
                                      !.pendingAudioChunks = Len(service.chunkQueue) - 1,
                                      !.lateWork = @ \/ stale]
         IN IF next = "empty" THEN drainLoop(taken, stale)
            ELSE IF ~(taken.now < taken.commandWindowUntil)
            THEN drainLoop(wakeOnset(taken, next), stale)
            ELSE [service |-> taken, suspended |-> TRUE]

\* loop i goes round its while loop again: it is suspended anew or it ends
continueLoop(service, i) ==
    LET run == drainLoop(service, service.loops[i].stale)
    IN IF run.suspended
       THEN [run.service EXCEPT !.loops[i].pc = "transcribing"]
       ELSE [run.service EXCEPT !.loops = RemoveAt(@, i)]

\* a mistaken catch clause: the failure ends the loop where it stands
afterChunkErrorLoopEnds(service, i) ==
    [service EXCEPT !.lastError = TRUE, !.loops = RemoveAt(@, i)]

\* the catch clause of drainQueue: setError, then the loop goes on
afterChunkError(service, i) ==
    continueLoop([service EXCEPT !.lastError = TRUE], i)

\* VoiceService.pushAudio, with the drainQueue it starts run to its first await
PushAudio(chunk) ==
    /\ voice.pushes < MaxPushes
    /\ \E queued \in {[voice EXCEPT !.pushes = @ + 1,
                                     !.chunkQueue = Append(@, chunk),
                                     !.pendingAudioChunks = Len(voice.chunkQueue) + 1]} :
          voice' = IF ~voice.enabled THEN [voice EXCEPT !.pushes = @ + 1]
                   ELSE IF voice.processing THEN queued
                   ELSE LET run == drainLoop([queued EXCEPT !.processing = TRUE], FALSE)
                        IN IF run.suspended
                           THEN [run.service EXCEPT
                                    !.loops = Append(@, [pc |-> "transcribing", stale |-> FALSE])]
                           ELSE run.service
    /\ UNCHANGED <<reload, options, offline, evaluation, sandbox, parseLog, guardVars, storeVars, configVars, runVars>>

\* transcribeAudio has answered loop i
AudioTranscribed(i, transcript) ==
    /\ i \in DOMAIN voice.loops
    /\ voice.loops[i].pc = "transcribing"
    /\ voice' = IF transcript = "" \/ commandOfTranscript(transcript) = ""
                THEN continueLoop(voice, i)
                ELSE [processCommandTranscript(voice, transcript) EXCEPT
                         !.loops[i].pc = "dispatching",
                         !.lateWork = @ \/ voice.loops[i].stale]
    /\ UNCHANGED <<reload, options, offline, evaluation, sandbox, parseLog, guardVars, storeVars, configVars, runVars>>

\* the processing of loop i's chunk has thrown
AudioChunkFails(i) ==
    /\ i \in DOMAIN voice.loops
    /\ voice.loops[i].pc = "transcribing"
    /\ voice' = afterChunkError(voice, i)
    /\ UNCHANGED <<reload, options, offline, evaluation, sandbox, parseLog, guardVars, storeVars, configVars, runVars>>

\* onCommand has answered (or thrown) for loop i: the window is closed and the
\* loop goes on
AudioCommandDone(i, ok) ==
    /\ i \in DOMAIN voice.loops
    /\ voice.loops[i].pc = "dispatching"
    /\ voice' = continueLoop([voice EXCEPT !.inFlight = @ - 1,
                                           !.commandWindowUntil = 0,
                                           !.lastError = @ \/ ~ok], i)
    /\ UNCHANGED <<reload, options, offline, evaluation, sandbox, parseLog, guardVars, storeVars, configVars, runVars>>

\* VoiceService.destroy
VoiceDestroy ==
    /\ voice' = [voice EXCEPT !.enabled = FALSE,
                              !.processing = FALSE,
                              !.commandWindowUntil = 0,
                              !.chunkQueue = <<>>,
                              !.wakeHits = 0,
                              !.lastWakeAtMs = 0,
                              !.pendingAudioChunks = 0,
                              !.loops = [i \in DOMAIN voice.loops |->
                                            [voice.loops[i] EXCEPT !.stale = TRUE]]]
    /\ UNCHANGED <<reload, options, offline, evaluation, sandbox, parseLog, guardVars, storeVars, configVars, runVars>>

\* a suspended drain loop is resumed
LoopResumes ==
    \E i \in 1..MaxPushes :
        \/ \E transcript \in AudioTranscripts : AudioTranscribed(i, transcript)
        \/ AudioChunkFails(i)
        \/ \E ok \in BOOLEAN : AudioCommandDone(i, ok)

NextAudio ==
    \/ \E enabled \in BOOLEAN : VoiceSetEnabled(enabled)
    \/ \E chunk \in AudioChunks : PushAudio(chunk)
    \/ LoopResumes
    \/ VoiceDestroy
    \/ VoiceTick

SpecAudio == InitVoice /\ [][NextAudio]_vars

\* every await of a drain loop is answered
SpecAudioLive == SpecAudio /\ WF_vars(LoopResumes)

(***************************************************************************)
(* Opening URLs under the strict offline policy                            *)
(***************************************************************************)
\* the text up to the first of "/", "?" and "#"
RECURSIVE Authority(_)
Authority(s) ==
    IF s = "" \/ Char(s, 1) \in {"/", "?", "#"} THEN ""
    ELSE Char(s, 1) \o Authority(SubSeq(s, 2, Len(s)))

\* the text after the last occurrence of c
RECURSIVE AfterLast(_, _)
AfterLast(s, c) ==
    IF ~Includes(s, c) THEN s ELSE AfterLast(SubSeq(s, IndexOf(s, c) + 1, Len(s)), c)

NoUrl == [ok |-> FALSE, protocol |-> "", hostname |-> "", href |-> ""]

\* new URL(rawUrl) for texts of the shape scheme://[user@]host[:port][path]:
\* protocol, hostname (lower case, an IPv6 literal in its brackets) and the
\* text toString() gives; ok is FALSE where the constructor throws
parseUrl(rawUrl) ==
    LET at == IndexOf(rawUrl, "://")
        protocol == ToLowerCase(SubSeq(rawUrl, 1, at))
        rest == SubSeq(rawUrl, at + 3, Len(rawUrl))
        authority == Authority(rest)
        path == SubSeq(rest, Len(authority) + 1, Len(rest))
        hostPort == AfterLast(authority, "@")
        userInfo == SubSeq(authority, 1, Len(authority) - Len(hostPort))
        closing == IndexOf(hostPort, "]")
        colon == IndexOf(hostPort, ":")
        host == IF StartsWith(hostPort, "[")
                THEN SubSeq(hostPort, 1, closing)
                ELSE IF colon = 0 THEN hostPort ELSE SubSeq(hostPort, 1, colon - 1)
        port == SubSeq(hostPort, Len(host) + 1, Len(hostPort))
    IN IF at < 2 \/ host = "" \/ Includes(host, " ") \/ Includes(host, "%")
          \/ (port # "" /\ ~(Char(port, 1) = ":" /\ AllDigits(SubSeq(port, 2, Len(port)))))
       THEN NoUrl
       ELSE [ok |-> TRUE, protocol |-> protocol, hostname |-> ToLowerCase(host),
             href |-> protocol \o "//" \o userInfo \o ToLowerCase(host)
                      \o (IF port = ":" THEN "" ELSE port)
                      \o (IF path = "" \/ Char(path, 1) # "/" THEN "/" \o path ELSE path)]

\* (?:\.\d{1,3}){n}$
RECURSIVE dotDigitGroups(_, _)
dotDigitGroups(s, n) ==
    IF n = 0 THEN s = ""
    ELSE /\ StartsWith(s, ".")
         /\ \E k \in 1..3 :
               /\ Len(s) >= 1 + k
               /\ AllDigits(SubSeq(s, 2, 1 + k))
               /\ dotDigitGroups(SubSeq(s, 2 + k, Len(s)), n - 1)

\* a mistaken isLoopbackHost: the host only has to begin like a loopback host
isLoopbackHostByPrefix(hostname) ==
    \/ StartsWith(ToLowerCase(Trim(hostname)), "localhost")
    \/ StartsWith(ToLowerCase(Trim(hostname)), "127.")

\* isLoopbackHost
isLoopbackHost(hostname) ==
    LET normalized == ToLowerCase(Trim(hostname))
    IN \/ normalized \in {"localhost", "::1", "127.0.0.1"}
       \/ /\ StartsWith(normalized, "127")
          /\ dotDigitGroups(SubSeq(normalized, 4, Len(normalized)), 3)

\* openExternal: the result, and in handed the URL given to openExternalUrl
\* ("" when it is not called)
openExternal(rawUrl, strictOffline, handler) ==
    LET parsed == parseUrl(rawUrl)
        Answer(ok, message, handed) == [result |-> Result(ok, message, FALSE), handed |-> handed]
    IN IF ~parsed.ok THEN Answer(FALSE, "Invalid URL.", "")
       ELSE IF parsed.protocol # "http:" /\ parsed.protocol # "https:"
       THEN Answer(FALSE, "Only http/https URLs are allowed.", "")
       ELSE IF strictOffline /\ ~isLoopbackHost(parsed.hostname)
       THEN Answer(FALSE, "Strict offline mode blocked remote URL launch. Use localhost/127.0.0.1 only.", "")
       ELSE IF handler THEN Answer(TRUE, "Opening URL " \o parsed.href, parsed.href)
       ELSE Answer(FALSE, "External URL handler unavailable.", "")

\* the texts openApp is given after "open "
OfflineUrls == {"https://example.com", "http://127.0.0.1:11434", " HTTP://LocalHost/models ",
                "http://[::1]:3000/", "http://127.0.0.1.example.com", "http://localhost.example.com/",
                "https://127.0.0.1@example.com/", "http://example.com@127.0.0.1/x",
                "http://127.5.6.7", "https://10.0.0.1:8443/a?b#c",
                "http://", "http://exa mple.com", "https://example.com:80a"}

\* JarvisRuntime.setStrictOffline
SetStrictOffline(enabled) ==
    /\ Len(offline.opens) < MaxOpens
    /\ offline' = [offline EXCEPT !.strictOffline = enabled]
    /\ UNCHANGED <<reload, options, evaluation, sandbox, parseLog, voice, guardVars, storeVars, configVars, runVars>>

\* openApp(rawApp) for a text that begins with http:// or https://, in a runtime
\* built with (handler) or without an openExternalUrl
OpenUrl(rawApp, handler) ==
    /\ Len(offline.opens) < MaxOpens
    /\ \E app \in {ToLowerCase(Trim(rawApp))} :
          /\ StartsWith(app, "http://") \/ StartsWith(app, "https://")
          /\ \E answer \in {openExternal(app, offline.strictOffline, handler)} :
                offline' = [offline EXCEPT !.opens = Append(@,
                               [app |-> app, strictOffline |-> offline.strictOffline,
                                handler |-> handler, result |-> answer.result,
                                handed |-> answer.handed])]
    /\ UNCHANGED <<reload, options, evaluation, sandbox, parseLog, voice, guardVars, storeVars, configVars, runVars>>

NextOffline ==
    \/ \E enabled \in BOOLEAN : SetStrictOffline(enabled)
    \/ \E rawApp \in OfflineUrls, handler \in BOOLEAN : OpenUrl(rawApp, handler)

SpecOffline == InitVoice /\ [][NextOffline]_vars

(***************************************************************************)
(* BackendOptionsService: numeric options                                  *)
(***************************************************************************)
\* a JavaScript number: a finite value in thousandths, NaN, Infinity, -Infinity
Finite(milli) == [kind |-> "finite", milli |-> milli]
NaN == [kind |-> "nan", milli |-> 0]
PosInfinity == [kind |-> "inf", milli |-> 0]
NegInfinity == [kind |-> "-inf", milli |-> 0]

\* the bounds sanitize clamps to, in thousandths
OptionBounds ==
    [wakeRmsThreshold |-> [min |-> 1, max |-> 1000],
     wakeRequiredHits |-> [min |-> 1000, max |-> 12000],
     wakeCooldownMs |-> [min |-> 300000, max |-> 60000000],
     commandWindowMs |-> [min |-> 1000000, max |-> 60000000],
     timeoutMs |-> [min |-> 500000, max |-> 30000000]]

OptionFields == DOMAIN OptionBounds

\* a mistaken clamp: the lower bound is not applied
clampUpperOnly(value, min, max) == IF value > max THEN max ELSE value

\* clamp(value, min, max) = Math.max(min, Math.min(max, value))
clamp(value, min, max) ==
    LET capped == IF value > max THEN max ELSE value
    IN IF capped < min THEN min ELSE capped

\* toFiniteOr(value, fallback)
toFiniteOr(value, fallback) == IF value.kind = "finite" THEN value.milli ELSE fallback

\* Math.round on thousandths
MathRound(milli) == ((milli + 500) \div 1000) * 1000

\* sanitize(input, fallback), numeric fields; wakeRmsThreshold is not rounded
sanitize(input, fallback) ==
    [field \in OptionFields |->
        LET number == toFiniteOr(input[field], fallback[field])
        IN clamp(IF field = "wakeRmsThreshold" THEN number ELSE MathRound(number),
                 OptionBounds[field].min, OptionBounds[field].max)]

\* a record of numbers as read from a file or merged from an update
AsNumbers(values) == [field \in OptionFields |-> Finite(values[field])]

\* the numbers an update or a stored file may hold
OptionInputs == {Finite(0 - 5000), Finite(0), Finite(400), Finite(2500), Finite(12400),
                 Finite(99000000), NaN, PosInfinity, NegInfinity}

\* the files init may find: none (the defaults are read), one with every
\* number too small, one with every number too large
OptionFiles == {AsNumbers(OptionDefaults),
                [field \in OptionFields |-> Finite(0)],
                [field \in OptionFields |-> Finite(99000000)]}

\* BackendOptionsService.init
OptionsInit(loaded) ==
    /\ ~options.initialised
    /\ \E clean \in {sanitize(loaded, OptionDefaults)} :
          options' = [options EXCEPT !.current = clean, !.stored = clean, !.initialised = TRUE,
                                     !.last = [op |-> "init", field |-> "", value |-> Finite(0)]]
    /\ UNCHANGED <<reload, offline, evaluation, sandbox, parseLog, voice, guardVars, storeVars, configVars, runVars>>

\* BackendOptionsService.update with one numeric field given
OptionsUpdate(field, value) ==
    /\ options.initialised
    /\ options.calls < MaxOptionCalls
    /\ \E clean \in {sanitize([AsNumbers(options.current) EXCEPT ![field] = value],
                                OptionDefaults)} :
          options' = [options EXCEPT !.current = clean, !.stored = clean, !.calls = @ + 1,
                                     !.last = [op |-> "update", field |-> field, value |-> value]]
    /\ UNCHANGED <<reload, offline, evaluation, sandbox, parseLog, voice, guardVars, storeVars, configVars, runVars>>

\* BackendOptionsService.reset
OptionsReset ==
    /\ options.initialised
    /\ options.calls < MaxOptionCalls
    /\ options' = [options EXCEPT !.current = sanitize(AsNumbers(OptionDefaults), OptionDefaults),
                                  !.stored = sanitize(AsNumbers(OptionDefaults), OptionDefaults),
                                  !.calls = @ + 1,
                                  !.last = [op |-> "reset", field |-> "", value |-> Finite(0)]]
    /\ UNCHANGED <<reload, offline, evaluation, sandbox, parseLog, voice, guardVars, storeVars, configVars, runVars>>

NextOptions ==
    \/ \E loaded \in OptionFiles : OptionsInit(loaded)
    \/ \E field \in OptionFields, value \in OptionInputs : OptionsUpdate(field, value)
    \/ OptionsReset

SpecOptions == InitVoice /\ [][NextOptions]_vars

(***************************************************************************)
(* IntentParser on its own                                                 *)
(***************************************************************************)
\* the texts parse is called with
ParserInputs == {"start routine good morning", "Run Routine focus sprint", "routine x",
                 "open chrome", "launch vlc", "list reminders", "show reminders",
                 "remind me in 5 min tea", "hello jarvis", "status", "music on", ""}

\* a caller parses a text and asks the permission its intent requires
Parse(rawCommand) ==
    /\ Len(parseLog) < MaxParses
    /\ parseLog' = Append(parseLog,
          [text |-> rawCommand, intent |-> parse(rawCommand),
           permission |-> requiredPermission(parse(rawCommand).type)])
    /\ UNCHANGED <<reload, options, offline, evaluation, sandbox, voice, guardVars, storeVars, configVars, runVars>>

InitParser ==
    /\ runtimeLevel = "admin"
    /\ commands = <<>>
    /\ persisted = <<>>
    /\ nextId = 0
    /\ storeResult = "ok"
    /\ storeCall = NoCall
    /\ plugins = <<>>
    /\ routines = <<>>
    /\ automations = <<>>
    /\ InitIdle

NextParser == \E rawCommand \in ParserInputs : Parse(rawCommand)

SpecParser == InitParser /\ [][NextParser]_vars

(***************************************************************************)
(* AutomationEngine on its own                                             *)
(***************************************************************************)
Rule(name, enabled, conditions, actions) ==
    [name |-> name, enabled |-> enabled, conditions |-> conditions, actions |-> actions]

\* a rule with the one condition time_range value, which runs the command value
TimedRule(value) ==
    Rule(value, TRUE, <<Condition("time_range", value)>>, <<RuleAction("run_command", value)>>)

\* the rule lists evaluate is called with
EngineRuleSets == {
    << Rule("Gaming", TRUE, <<Condition("contains_command", "open steam")>>,
            <<RuleAction("set_mode", "gaming"), RuleAction("show_hint", "X")>>) >>,
    << Rule("A", TRUE, <<Condition("contains_command", "Open")>>,
            <<RuleAction("run_command", "a1"), RuleAction("set_mode", "focus"),
              RuleAction("run_command", "a2"), RuleAction("show_hint", "h1")>>),
       Rule("B", FALSE, <<>>,
            <<RuleAction("run_command", "b1"), RuleAction("set_mode", "night")>>),
       Rule("C", TRUE, <<Condition("contains_command", "steam"), Condition("mode_is", "work")>>,
            <<RuleAction("set_mode", "gaming"), RuleAction("run_command", "c1"),
              RuleAction("show_hint", "h2"), RuleAction("show_hint", "h3")>>),
       Rule("D", TRUE, <<>>, <<RuleAction("run_command", "d1")>>),
       Rule("E", TRUE, <<Condition("mode_is", "Work")>>, <<RuleAction("run_command", "e1")>>),
       Rule("F", TRUE, <<Condition("app_is", "steam")>>, <<RuleAction("run_command", "f1")>>) >>,
    << TimedRule("09:00-17:00"), TimedRule("22:00-06:00"), TimedRule("06:00-06:00"),
       TimedRule("9:00-9:30") >>,
    << TimedRule("abc"), TimedRule("25:99-03:00"), TimedRule("22:00"),
       TimedRule("22:00-6"), TimedRule("12:60-13:00"), TimedRule("24:00-24:00") >>,
    << Rule("Late work", TRUE,
            <<Condition("time_range", "22:00-06:00"), Condition("mode_is", "work")>>,
            <<RuleAction("run_command", "rest"), RuleAction("set_mode", "night")>>) >> }

EngineCommands == {"open steam", "OPEN  Steam now", "status", ""}
EngineModes == {"work", "gaming"}

\* minute-of-day values of nowMinutes() at the call
EngineClocks == {0, 120, 180, 181, 360, 361, 539, 540, 570, 571, 720, 780,
                 1020, 1021, 1319, 1320, 1380, 1439}

\* a caller evaluates the rules for a command, a mode and a time of day; the
\* engine keeps no state, so one call per behaviour covers every call
Evaluate(command, currentMode, current) ==
    /\ ~evaluation.called
    /\ evaluation' = [called |-> TRUE, command |-> command, mode |-> currentMode,
                      current |-> current,
                      outcome |-> evaluate(automations, command, currentMode, current)]
    /\ UNCHANGED <<reload, options, offline, sandbox, parseLog, voice, guardVars, storeVars, configVars, runVars>>

InitEngine ==
    /\ runtimeLevel = "admin"
    /\ commands = <<>>
    /\ persisted = <<>>
    /\ nextId = 0
    /\ storeResult = "ok"
    /\ storeCall = NoCall
    /\ plugins = <<>>
    /\ routines = <<>>
    /\ automations \in EngineRuleSets
    /\ InitIdle

NextEngine ==
    \E command \in EngineCommands, currentMode \in EngineModes, current \in EngineClocks :
        Evaluate(command, currentMode, current)

SpecEngine == InitEngine /\ [][NextEngine]_vars

(***************************************************************************)
(* Properties                                                              *)
(***************************************************************************)
Entering == Len(stack) > 0 /\ Top.pc = "enter"
Returns == stack' = Callers
BlockedResult == Result(FALSE, "Command recursion blocked.", FALSE)

\* C1: an invocation of dispatchCommand at depth greater than 4 returns ok:false
\* "recursion blocked" whatever its command text, and executes nothing, writes
\* no history record, changes no mode and starts no further dispatch.
C1_RecursionBlocked ==
    [][(Entering /\ Top.depth > 4) =>
          /\ Returns
          /\ ret' = BlockedResult
          /\ executed' = executed
          /\ commandHistory' = commandHistory
          /\ mode' = mode
          /\ dispatchLog' = dispatchLog]_vars

\* a command (a plugin command, a shell command or an alias) was dispatched at
\* depth 5 below four callers and came back blocked
C1_Witness ==
    /\ \E i \in 1..Len(dispatchLog) :
          dispatchLog[i].depth = 5 /\ dispatchLog[i].cmd \in {"/plug x", "/cmd dir", "pong"}
    /\ Len(stack) = 5
    /\ ret = BlockedResult

\* C2: a top-level command runs at depth 0 and every re-dispatch (custom-command
\* delegation, automation follow-up, routine step) runs at the depth of the
\* dispatch that caused it plus one.
C2_DepthIncrements ==
    \A i \in 1..Len(dispatchLog) :
        IF dispatchLog[i].via = "top" THEN dispatchLog[i].depth = 0
        ELSE dispatchLog[i].depth = dispatchLog[i].callerDepth + 1

\* C3: every top-level runCommand returns a result, also for cyclic
\* configurations of custom commands, routines and automation rules: when the
\* run is over the caller holds a CommandResponse, the chain of re-dispatches
\* having ended by itself and not by exhausting the call stack.
C3_RunCommandReturns ==
    (runs > 0 /\ stack = <<>>) => response.kind = "result"

\* the permission level of the action an entering invocation resolves to
GateLevel(f) ==
    CASE f.stage = "plugin" -> PluginOf(f).permissionLevel
      [] f.stage = "shell" -> "confirm"
      [] f.stage = "intent" -> Required(f)
      [] OTHER -> "safe"

\* the invocation on top of the stack stands before the confirmation gate with
\* an action that needs confirmation, or is an alias whose target was stopped there
ReachesGate ==
    \/ /\ Entering
       /\ Top.stage \in {"plugin", "shell", "intent"}
       /\ Top.stage = "intent" => rank(runtimeLevel) >= rank(GateLevel(Top))
       /\ GateLevel(Top) \in {"confirm", "admin"}
       /\ ~Top.bypass
    \/ /\ Len(stack) > 0
       /\ Top.pc = "delegated"
       /\ ret.needsConfirmation

\* C4: when the action's permission is confirm or admin and bypassConfirmation
\* is false, the dispatch ends with needsConfirmation, executes nothing and
\* writes no history record, on the intent, plugin and shell paths and for a
\* command that reaches the gate through a custom-command alias.
C4_ConfirmationGate ==
    [][ReachesGate =>
          /\ Returns
          /\ ~ret'.ok
          /\ ret'.needsConfirmation
          /\ executed' = executed
          /\ commandHistory' = commandHistory]_vars

\* C5: a confirmation block reaches the caller of runCommand as ok:false with
\* needsConfirmation:true, also when an alias's delegated target was blocked.
C5_ConfirmationSurfaced ==
    (response.kind = "result" /\ gated) =>
        (~response.result.ok /\ response.result.needsConfirmation)

\* C6: a custom command whose built target equals, ignoring case, the command
\* that triggered it is rejected at once with ok:false "points to itself";
\* no delegated dispatch starts and nothing is executed.
C6_SelfReferenceRejected ==
    [][(/\ Entering
        /\ Top.stage = "custom"
        /\ CustomTarget(Top) # ""
        /\ ToLowerCase(CustomTarget(Top)) = ToLowerCase(Top.normalized)) =>
          /\ Returns
          /\ ret' = Result(FALSE, "Custom command points to itself.", FALSE)
          /\ dispatchLog' = dispatchLog
          /\ executed' = executed]_vars

\* the alias "me" (action "ME") was run at top level and came back rejected
\* with only the top-level dispatch in the log
C6_Witness ==
    /\ response.kind = "result"
    /\ response.result.message = "Custom command points to itself."
    /\ Len(dispatchLog) = 1
    /\ dispatchLog[1].cmd = "me"

CanRunPairs == {<<"safe", "safe">>,
                <<"confirm", "safe">>, <<"confirm", "confirm">>,
                <<"admin", "safe">>, <<"admin", "confirm">>, <<"admin", "admin">>}

\* C8: canRun(level) is true exactly for the pairs (ceiling, level) with
\* ceiling at or above level in safe < confirm < admin, and asking changes
\* neither the ceiling nor any other state.
C8_CanRun ==
    /\ [](\A i \in 1..Len(probeLog) :
            probeLog[i].fn = "canRun" =>
               (probeLog[i].answer <=> <<runtimeLevel, probeLog[i].level>> \in CanRunPairs))
    /\ [][UNCHANGED <<runtimeLevel, sideVars, storeVars, configVars, runVars>>]_vars

\* canRun was asked twice and answered once yes and once no
C8_Witness ==
    /\ Len(probeLog) = 2
    /\ probeLog[1].fn = "canRun" /\ probeLog[1].answer
    /\ probeLog[2].fn = "canRun" /\ ~probeLog[2].answer

\* C9: needsConfirmation(level, bypass) is true exactly when level is confirm
\* or admin and bypass is false, under every ceiling.
C9_NeedsConfirmation ==
    \A i \in 1..Len(probeLog) :
        probeLog[i].fn = "needsConfirmation" =>
           (probeLog[i].answer <=>
               (probeLog[i].level \in {"confirm", "admin"} /\ ~probeLog[i].bypass))

\* under the ceiling safe, an admin action asked with bypass needs no
\* confirmation and asked without bypass needs it
C9_Witness ==
    /\ runtimeLevel = "safe"
    /\ Len(probeLog) = 2
    /\ probeLog[1] = [fn |-> "needsConfirmation", level |-> "admin", bypass |-> TRUE,
                      answer |-> FALSE]
    /\ probeLog[2] = [fn |-> "needsConfirmation", level |-> "admin", bypass |-> FALSE,
                      answer |-> TRUE]

\* C10: after any sequence of create, update and delete, no two stored
\* commands have names equal ignoring case and no two have equal normalized
\* triggers, enabled or not.
C10_UniqueNamesAndTriggers ==
    \A i, j \in 1..Len(commands) :
        i # j =>
           /\ ToLowerCase(commands[i].name) # ToLowerCase(commands[j].name)
           /\ normalizeTrigger(commands[i].trigger) # normalizeTrigger(commands[j].trigger)

\* two commands are stored, one of them disabled, and the last call was
\* refused for a collision
C10_Witness ==
    /\ Len(commands) = 2
    /\ \E i \in 1..2 : ~commands[i].enabled
    /\ storeResult \in {"Custom command name or trigger already exists.",
                        "Another custom command already uses that name or trigger."}

StoreUntouched == commands' = commands /\ persisted' = persisted

\* C11: create and update fail with their error when the name or trigger asked
\* for is that of another stored command, update and delete fail for an id that
\* names no stored command, every such failure leaves the in-memory list and the
\* persisted store as they were, and a call that neither collides with another
\* command nor names an unknown id succeeds (a command does not collide with
\* itself on update).
C11_StoreErrors ==
    [][ /\ (storeCall'.op = "create" /\ storeCall'.collides) =>
             /\ storeResult' = "Custom command name or trigger already exists."
             /\ StoreUntouched
        /\ (storeCall'.op = "update" /\ storeCall'.known /\ storeCall'.collides) =>
             /\ storeResult' = "Another custom command already uses that name or trigger."
             /\ StoreUntouched
        /\ (storeCall'.op \in {"update", "delete"} /\ ~storeCall'.known) =>
             /\ storeResult' = "Custom command not found."
             /\ StoreUntouched
        /\ (storeCall'.op \in {"create", "update", "delete"}
               /\ storeCall'.known /\ ~storeCall'.collides) =>
             storeResult' = "ok"]_vars

\* an update of a stored command was refused because it collides with the
\* other stored command
C11_Witness ==
    /\ storeCall = [op |-> "update", known |-> TRUE, collides |-> TRUE]
    /\ storeResult = "Another custom command already uses that name or trigger."
    /\ Len(commands) = 2

\* C12: after every successful init, create, update or delete the persisted
\* store content equals the in-memory command list.
C12_WrittenThrough == storeResult = "ok" => persisted = commands

\* init has loaded the file's command and written it back normalized
C12_Witness ==
    /\ storeCall.op = "init"
    /\ Len(persisted) = 1
    /\ persisted[1].name = "Old One"
    /\ persisted[1].trigger = "old"
    /\ persisted = commands

\* the text matches the stored command: it is its trigger or its name ignoring
\* case, or its trigger followed by a space and arguments
MatchedBy(text, item) ==
    \/ text = item.trigger
    \/ text = ToLowerCase(item.name)
    \/ \E n \in 1..(Len(text) - 1) : SubSeq(text, 1, n) = item.trigger \o " "

EnabledMatches(f) ==
    {j \in 1..Len(commands) :
        commands[j].enabled /\ MatchedBy(ToLowerCase(f.normalized), commands[j])}

\* C13: match returns a command exactly when some enabled command matches the
\* normalized text; the command returned is enabled, matches, and no enabled
\* matching command has a longer trigger; "start sprint" resolves to the
\* command with trigger "start sprint" and empty args.
C13_LongestEnabledTrigger ==
    \A k \in 1..Len(stack) :
       stack[k].stage \notin {"blocked", "invalid"} =>
          \A m \in {match(commands, stack[k].normalized)} :
             /\ m.found <=> EnabledMatches(stack[k]) # {}
             /\ stack[k].stage = "custom" <=> m.found
             /\ m.found =>
                   /\ m.index \in EnabledMatches(stack[k])
                   /\ \A j \in EnabledMatches(stack[k]) :
                         Len(commands[j].trigger) <= Len(commands[m.index].trigger)
                   /\ stack[k].normalized = "start sprint" =>
                         /\ commands[m.index].trigger = "start sprint"
                         /\ m.args = ""

\* "Start Sprint now" is being dispatched: the enabled commands "start" and
\* "start sprint" both match it, the disabled "start sprint now" is its exact
\* trigger, and "start sprint" took it with args "now"
C13_Witness ==
    /\ Len(stack) = 1
    /\ Top.normalized = "Start Sprint now"
    /\ Top.stage = "custom"
    /\ Cardinality(EnabledMatches(Top)) = 2
    /\ commands[match(commands, Top.normalized).index].trigger = "start sprint"
    /\ match(commands, Top.normalized).args = "now"

\* the first occurrence of p in s replaced by the text r itself
ReplacedBy(s, p, r) ==
    SubSeq(s, 1, IndexOf(s, p) - 1) \o r \o SubSeq(s, IndexOf(s, p) + Len(p), Len(s))

ClaimedTarget(command, args) ==
    IF Includes(command.action, "{args}") THEN ReplacedBy(command.action, "{args}", args)
    ELSE IF command.passThroughArgs /\ args # "" THEN command.action \o " " \o args
    ELSE command.action

\* C14: buildTarget returns the action with {args} replaced by args when the
\* action contains {args}, else the action followed by a space and args when
\* passThroughArgs is set and args is non-empty, else the action unchanged
\* (compared up to whitespace normalization).
C14_BuildTarget ==
    \A k \in 1..Len(stack) :
       stack[k].stage = "custom" =>
          \A m \in {match(commands, stack[k].normalized)} :
             buildTarget(commands[m.index], m.args)
                = normalizeSpaces(ClaimedTarget(commands[m.index], m.args))

\* the follow-up commands the automation rules produce for the command of f
FollowUps(f) ==
    UNION {{evaluate(automations, f.normalized, mode, current).commands} :
              current \in ClockSamples}

\* the step executes the command of the invocation on top of the stack
\* (a plugin, a built-in shortcut or a parsed intent other than a routine run)
ExecutesTop ==
    /\ Entering
    /\ Len(executed') = Len(executed) + 1
    /\ executed'[Len(executed')].action # "run_routine"

\* C15: when a command has been executed (plugin, built-in shortcut or parsed
\* intent) and the automation rules produce follow-up commands for it, the
\* first follow-up is dispatched next, at the depth of the command plus one.
C15_AutomationAfterEveryCommand ==
    [][(ExecutesTop /\ <<>> \notin FollowUps(Top)) =>
          /\ Len(stack') = Len(stack) + 1
          /\ stack'[Len(stack')].depth = Top.depth + 1
          /\ \E cmds \in FollowUps(Top) : stack'[Len(stack')].cmd = Head(cmds)]_vars

RECURSIVE CommandsOf(_)
CommandsOf(log) == IF Len(log) = 0 THEN <<>> ELSE <<Head(log).cmd>> \o CommandsOf(Tail(log))

\* the follow-up commands dispatched so far for the top-level command
TopFollowUpsRun ==
    CommandsOf(SelectSeq(dispatchLog,
                         LAMBDA e : e.via = "automation" /\ e.callerDepth = 0))

\* the follow-up lists the rules can produce for the top-level command
TopFollowUpsProduced ==
    {evaluate(automations, normalizeSpaces(Trim(dispatchLog[1].cmd)), m, current).commands :
        m \in Modes, current \in ClockSamples}

TopWasIntent ==
    /\ Len(dispatchLog) > 0
    /\ resolution(dispatchLog[1].cmd, 0) = "intent"
    /\ Len(executed) > 0
    /\ executed[1].depth = 0

\* C16: a follow-up is dispatched only by its parent while no earlier follow-up
\* of that parent is still running (the parent is the innermost invocation),
\* and when runCommand returns the result of a command the rules were
\* evaluated for, the follow-ups dispatched for it are the produced list, in
\* the produced order and in full.
C16_FollowUpsInOrder ==
    /\ [][(Len(dispatchLog') = Len(dispatchLog) + 1
             /\ dispatchLog'[Len(dispatchLog')].via = "automation") =>
               /\ Len(stack) > 0
               /\ Top.depth = dispatchLog'[Len(dispatchLog')].callerDepth
               /\ Len(stack') = Len(stack) + 1
               /\ stack'[Len(stack)].pc = "automation"]_vars
    /\ []((stack = <<>> /\ response.kind = "result" /\ TopWasIntent) =>
             TopFollowUpsRun \in TopFollowUpsProduced)

\* runCommand("telemetry") has returned after its two follow-ups ran in order
C16_Witness ==
    /\ stack = <<>>
    /\ response.kind = "result"
    /\ dispatchLog[1].cmd = "telemetry"
    /\ TopFollowUpsRun = <<"/time", "music on">>

\* C17: while a command is being dispatched, a history record is added only by
\* the top-level invocation of the run (depth 0, writeHistory set, no caller on
\* the stack) and names that run's command; delegated targets, automation
\* follow-ups and routine steps add none, so apart from the records that
\* setPluginEnabled writes the history never holds more records than runs
\* were made.
C17_HistoryOnlyAtTopLevel ==
    /\ [][(stack # <<>> /\ commandHistory' # commandHistory) =>
              /\ Len(stack) = 1
              /\ Top.depth = 0
              /\ Top.writeHistory
              /\ Len(commandHistory') = Len(commandHistory) + 1
              /\ Tail(commandHistory') = commandHistory
              /\ Head(commandHistory').command = normalizeSpaces(Trim(dispatchLog[1].cmd))]_vars
    /\ [](Len(commandHistory) <= runs + Len(PluginToggleRecords(commandHistory)))

\* a run whose sub-dispatches (delegation, follow-up or routine step) executed
\* something has returned with exactly one record written
C17_Witness ==
    /\ stack = <<>>
    /\ response.kind = "result"
    /\ Len(commandHistory) = 1
    /\ \E v \in {"custom", "automation", "routine"} :
          \E i \in 1..Len(dispatchLog) : dispatchLog[i].via = v
    /\ \E i \in 1..Len(executed) : executed[i].depth > 0

InvalidResult == Result(FALSE, "Invalid command input.", FALSE)

C19_PluginSelectedOnlyIfEnabled ==
    \A i \in 1..Len(stack) :
        stack[i].stage = "plugin" =>
            \E k \in 1..Len(plugins) :
                /\ plugins[k].enabled
                /\ StartsWith(ToLowerCase(stack[i].normalized),
                              ToLowerCase(plugins[k].entryCommand))

CustomClaims(f) == EnabledMatches(f) # {}

PluginPrefixes(f) ==
    {k \in 1..Len(plugins) :
        StartsWith(ToLowerCase(f.normalized), ToLowerCase(plugins[k].entryCommand))}

BuiltinClaims(f) == builtinOf(f.normalized) # "none"

HandledAsCustom == CustomEmpty \/ CustomSelfReference \/ CustomDelegate
HandledAsPlugin == PluginNeedsConfirmation \/ PluginExecute
HandledAsBuiltin == BuiltinShortcut \/ ShellNeedsConfirmation \/ ShellExecute \/ ModeShortcut
HandledAsIntent ==
    IntentNeedsConfirmation \/ IntentExecute \/ RoutineBegin \/ IntentPermissionDenied

ConditionClaimed(condition) ==
    CASE condition.type = "contains_command" ->
            Includes(ToLowerCase(evaluation.command), ToLowerCase(condition.value))
      [] condition.type = "mode_is" -> evaluation.mode = condition.value
      [] OTHER -> conditionHolds(condition, evaluation.command, evaluation.mode,
                                 evaluation.current)

\* the rules that contribute: enabled, with every condition holding
Contributing ==
    {i \in 1..Len(automations) :
        /\ automations[i].enabled
        /\ \A k \in 1..Len(automations[i].conditions) :
              ConditionClaimed(automations[i].conditions[k])}

\* the positions <<rule, action>> of the contributed actions of one type
Contributed(type) ==
    {p \in Contributing \X (1..4) :
        /\ p[2] <= Len(automations[p[1]].actions)
        /\ automations[p[1]].actions[p[2]].type = type}

Precedes(p, q) == p[1] < q[1] \/ (p[1] = q[1] /\ p[2] <= q[2])
Rank(p, positions) == Cardinality({q \in positions : Precedes(q, p)})
ValueAt(p) == automations[p[1]].actions[p[2]].value

\* the sequence holds exactly the values at the positions, in position order
ListsInOrder(seq, positions) ==
    /\ Len(seq) = Cardinality(positions)
    /\ \A p \in positions : seq[Rank(p, positions)] = ValueAt(p)

\* C21: the outcome of evaluate holds the run_command values of the enabled
\* rules whose conditions all hold, in rule and action order, one suggestion
\* for each of their show_hint actions, and as mode the value of their last
\* set_mode action, or no mode when they have none.
C21_EvaluateCollects ==
    evaluation.called =>
        /\ ListsInOrder(evaluation.outcome.commands, Contributed("run_command"))
        /\ ListsInOrder(evaluation.outcome.suggestions, Contributed("show_hint"))
        /\ IF Contributed("set_mode") = {}
           THEN evaluation.outcome.mode = {}
           ELSE \E p \in Contributed("set_mode") :
                   /\ \A q \in Contributed("set_mode") : Precedes(q, p)
                   /\ evaluation.outcome.mode = {ValueAt(p)}

\* rules A, C and D contribute and the disabled rule B does not: the follow-ups
\* are a1, a2, c1, d1, the hints h1, h2, h3 and the mode is C's "gaming"
C21_Witness ==
    /\ evaluation.called
    /\ evaluation.outcome.commands = <<"a1", "a2", "c1", "d1">>
    /\ evaluation.outcome.suggestions = <<"h1", "h2", "h3">>
    /\ evaluation.outcome.mode = {"gaming"}

\* the rules of the call that have the one condition time_range
TimedRules ==
    {i \in 1..Len(automations) :
        /\ automations[i].enabled
        /\ Len(automations[i].conditions) = 1
        /\ automations[i].conditions[1].type = "time_range"
        /\ automations[i].actions = <<RuleAction("run_command", automations[i].name)>>}

RangeOf(i) == automations[i].conditions[1].value

\* the rule's own command is among the follow-ups of the outcome
Fired(i) ==
    \E k \in 1..Len(evaluation.outcome.commands) :
        evaluation.outcome.commands[k] = automations[i].name

\* H:MM or HH:MM with hour 0 to 23 and minute 0 to 59
ClockWellFormed(text) ==
    LET colon == IndexOf(text, ":")
        hh == SubSeq(text, 1, colon - 1)
        mm == SubSeq(text, colon + 1, Len(text))
    IN /\ colon \in {2, 3}
       /\ Len(mm) = 2
       /\ AllDigits(hh)
       /\ AllDigits(mm)
       /\ ToNumber(hh) <= 23
       /\ ToNumber(mm) <= 59

StartText(value) == SubSeq(value, 1, IndexOf(value, "-") - 1)
EndText(value) == SubSeq(value, IndexOf(value, "-") + 1, Len(value))

RangeWellFormed(value) ==
    /\ IndexOf(value, "-") > 0
    /\ ClockWellFormed(StartText(value))
    /\ ClockWellFormed(EndText(value))

MinuteOfDay(text) ==
    LET colon == IndexOf(text, ":")
    IN ToNumber(SubSeq(text, 1, colon - 1)) * 60 + ToNumber(SubSeq(text, colon + 1, Len(text)))

\* the minute lies in the range, which wraps past midnight when it starts
\* later than it ends
InRange(value, minute) ==
    LET start == MinuteOfDay(StartText(value))
        end == MinuteOfDay(EndText(value))
    IN IF start <= end
       THEN start <= minute /\ minute <= end
       ELSE minute >= start \/ minute <= end

\* C22: a rule whose one condition is a well-formed time_range fires exactly
\* when the current minute lies between start and end inclusive, or, when the
\* start is later than the end, at or after the start or at or before the end.
C22_TimeRangeWraps ==
    evaluation.called =>
        \A i \in TimedRules :
            RangeWellFormed(RangeOf(i)) => (Fired(i) <=> InRange(RangeOf(i), evaluation.current))

\* at 02:00 the rule for 22:00-06:00 fires and the rule for 09:00-17:00 does not
C22_Witness ==
    /\ evaluation.called
    /\ evaluation.current = 120
    /\ evaluation.outcome.commands = <<"22:00-06:00">>
    /\ \E i \in TimedRules : RangeOf(i) = "09:00-17:00"

\* C23: a rule whose one condition is a time_range that is not well formed
\* never fires, at any time of day.
C23_MalformedRangeNeverFires ==
    evaluation.called =>
        \A i \in TimedRules : ~RangeWellFormed(RangeOf(i)) => ~Fired(i)

\* C24: a plugin call whose worker is running always ends; the worker is
\* terminated only once the timeout has elapsed and the call then reports
\* ok:false; the worker is started at most once for a call.
C24_PluginCallEnds ==
    /\ [](sandbox.terminated =>
            /\ sandbox.phase = "done"
            /\ sandbox.elapsed >= PluginTimeout
            /\ ~sandbox.result.ok)
    /\ [](sandbox.starts <= 1)
    /\ [](sandbox.phase = "running" => sandbox.elapsed <= PluginTimeout)
    /\ (sandbox.phase = "running" ~> sandbox.phase = "done")

\* a plugin that never returns was terminated at the timeout
C24_Witness ==
    /\ sandbox.behaviour = "hangs"
    /\ sandbox.phase = "done"
    /\ sandbox.terminated
    /\ sandbox.elapsed = PluginTimeout
    /\ sandbox.result = Result(FALSE, "Plugin timed out.", FALSE)

C26_EscapingEntryRejected ==
    (/\ sandbox.phase # "idle"
     /\ LET resolved == resolveEntry(SandboxPluginDir, sandbox.entry)
        IN \/ Len(resolved) <= Len(SandboxPluginDir)
           \/ \E k \in 1..Len(SandboxPluginDir) : resolved[k] # SandboxPluginDir[k]) =>
        /\ sandbox.phase = "done"
        /\ ~sandbox.codeRan
        /\ ~sandbox.result.ok

\* the entry "../../escape.js", a file that exists outside, was rejected
C26_Witness ==
    /\ sandbox.phase = "done"
    /\ sandbox.entry = "../../escape.js"
    /\ resolveEntry(SandboxPluginDir, sandbox.entry) \in SandboxFiles
    /\ ~sandbox.codeRan
    /\ ~sandbox.result.ok

\* C27: a text "start routine <name>" is parsed as run_routine with the
\* routine name as entity.
C27_StartRoutineIsRoutine ==
    \A i \in 1..Len(parseLog) :
        LET text == ToLowerCase(Trim(parseLog[i].text))
        IN StartsWith(text, "start routine ") =>
              /\ parseLog[i].intent.type = "run_routine"
              /\ parseLog[i].intent.name = SubSeq(text, Len("start routine ") + 1, Len(text))

\* C28: a dispatched "list reminders" or "show reminders" is carried out as
\* list_reminders and never as set_reminder.
C28_ListRemindersListsOnly ==
    \A i \in 1..Len(executed) :
        ToLowerCase(executed[i].command) \in {"list reminders", "show reminders"} =>
            executed[i].action = "list_reminders"

\* C29: requiredPermission(open_app) is safe, and a top-level command parsed
\* as open_app and run without bypass is not answered with needsConfirmation.
C29_AppLaunchIsSafe ==
    /\ requiredPermission("open_app") = "safe"
    /\ (/\ Len(dispatchLog) = 1
        /\ stack = <<>>
        /\ response.kind = "result"
        /\ resolution(dispatchLog[1].cmd, 0) = "intent"
        /\ parse(normalizeSpaces(Trim(dispatchLog[1].cmd))).type = "open_app") =>
           ~response.result.needsConfirmation

\* the text that follows the first wake word of a transcript, "" when the
\* transcript has no wake word
AfterWakeWord(rawTranscript) ==
    LET transcript == normalizeSpaces(Trim(rawTranscript))
        at == IndexOf(ToLowerCase(transcript), "jarvis")
    IN IF at = 0 THEN ""
       ELSE normalizeSpaces(Trim(SubSeq(transcript, at + Len("jarvis"), Len(transcript))))

HasWakeWord(rawTranscript) == Includes(ToLowerCase(rawTranscript), "jarvis")

TranscriptGiven == voice'.calls = voice.calls + 1

\* C30: with voice enabled, a transcript holding the wake word followed by
\* text hands exactly that text to onCommand, once, and emits one wake event;
\* a transcript without the wake word hands over a command only inside the
\* window an earlier wake opened; and no more than one command is handed over
\* per wake.
C30_WakeWordAndWindow ==
    /\ [][(TranscriptGiven /\ voice.enabled) =>
             /\ (HasWakeWord(voice'.transcript) /\ AfterWakeWord(voice'.transcript) # "") =>
                   /\ voice'.dispatched =
                         Append(voice.dispatched, AfterWakeWord(voice'.transcript))
                   /\ voice'.wakes = voice.wakes + 1
             /\ (~HasWakeWord(voice'.transcript) /\ voice'.dispatched # voice.dispatched) =>
                   /\ voice.wakes > 0
                   /\ voice.now < voice.commandWindowUntil]_vars
    /\ [](voice.enabled => voice.sinceWake <= 1)

C38_OneDrainLoop ==
    /\ Len(voice.loops) <= 1
    /\ ~voice.lateWork

\* the host named by a URL text of the shape scheme://[user@]host[:port][path]
HostNamed(url) ==
    LET rest == SubSeq(url, IndexOf(url, "://") + 3, Len(url))
        ends == {i \in 1..Len(rest) : SubSeq(rest, i, i) \in {"/", "?", "#"}}
        authority == IF ends = {} THEN rest
                     ELSE SubSeq(rest, 1, (CHOOSE i \in ends : \A j \in ends : i <= j) - 1)
        ats == {i \in 1..Len(authority) : SubSeq(authority, i, i) = "@"}
        hostPort == IF ats = {} THEN authority
                    ELSE SubSeq(authority, (CHOOSE i \in ats : \A j \in ats : i >= j) + 1,
                                Len(authority))
        colons == {i \in 1..Len(hostPort) : SubSeq(hostPort, i, i) = ":"}
    IN IF StartsWith(hostPort, "[") THEN SubSeq(hostPort, 1, IndexOf(hostPort, "]"))
       ELSE IF colons = {} THEN hostPort
       ELSE SubSeq(hostPort, 1, (CHOOSE i \in colons : \A j \in colons : i <= j) - 1)

\* the loopback hosts: localhost, ::1 and the addresses 127.a.b.c
LoopbackHosts == {"localhost", "[::1]", "::1", "127.0.0.1", "127.5.6.7"}

\* C32: in strict offline mode a URL is handed to the external handler only
\* if it is an http or https URL whose host is a loopback host; for any other
\* host the result is ok:false, names strict offline mode, and the handler is
\* not called.
C32_StrictOfflineLoopbackOnly ==
    \A i \in DOMAIN offline.opens :
        LET open == offline.opens[i]
        IN open.strictOffline =>
             /\ open.handed # "" =>
                   /\ StartsWith(open.app, "http://") \/ StartsWith(open.app, "https://")
                   /\ HostNamed(open.app) \in LoopbackHosts
             /\ (open.result.message # "Invalid URL."
                   /\ HostNamed(open.app) \notin LoopbackHosts) =>
                   /\ ~open.result.ok
                   /\ Includes(ToLowerCase(open.result.message), "strict offline mode")
                   /\ open.handed = ""

\* both cases have happened in strict offline mode: a remote host was refused
\* and a loopback URL was handed on
C32_Witness ==
    /\ Len(offline.opens) = 2
    /\ offline.opens[1].strictOffline /\ offline.opens[2].strictOffline
    /\ offline.opens[1].app = "http://127.0.0.1.example.com"
    /\ ~offline.opens[1].result.ok
    /\ offline.opens[2].app = "http://127.0.0.1:11434"
    /\ offline.opens[2].handed = "http://127.0.0.1:11434/"

\* every numeric option lies inside its bounds
OptionsInBounds ==
    \A field \in DOMAIN options.current :
        /\ options.current[field] >= OptionBounds[field].min
        /\ options.current[field] <= OptionBounds[field].max

\* the last call was an update of a field with a number below its lower bound
UpdatedBelow ==
    /\ options.last.op = "update"
    /\ \/ options.last.value.kind = "-inf"
       \/ /\ options.last.value.kind = "finite"
          /\ options.last.value.milli < OptionBounds[options.last.field].min

\* the last call was an update of a field with a number above its upper bound
UpdatedAbove ==
    /\ options.last.op = "update"
    /\ \/ options.last.value.kind = "inf"
       \/ /\ options.last.value.kind = "finite"
          /\ options.last.value.milli > OptionBounds[options.last.field].max

\* C33: the numeric backend options stay inside their bounds, a number given
\* to update that is out of range (whatever number it is) leaves the field at
\* the nearest bound, and reset restores the defaults.
C33_OptionsClamped ==
    /\ OptionsInBounds
    /\ UpdatedBelow => options.current[options.last.field] = OptionBounds[options.last.field].min
    /\ UpdatedAbove => options.current[options.last.field] = OptionBounds[options.last.field].max
    /\ options.last.op = "reset" => options.current = OptionDefaults

\* C33 as the code has it: the bounds always hold, a finite number out of range
\* is clamped to the nearest bound, a number that is not finite (NaN, Infinity,
\* -Infinity) puts the field back to its default, and reset restores the defaults.
C33_FiniteClamped ==
    /\ OptionsInBounds
    /\ options.stored = options.current
    /\ (UpdatedBelow /\ options.last.value.kind = "finite") =>
          options.current[options.last.field] = OptionBounds[options.last.field].min
    /\ (UpdatedAbove /\ options.last.value.kind = "finite") =>
          options.current[options.last.field] = OptionBounds[options.last.field].max
    /\ (options.last.op = "update" /\ options.last.value.kind # "finite") =>
          options.current[options.last.field] = OptionDefaults[options.last.field]
    /\ options.last.op = "reset" => options.current = OptionDefaults

\* an update below the range has been clamped after a file with every number
\* too large was read
C33_Witness ==
    /\ UpdatedBelow
    /\ options.last.field = "wakeRequiredHits"
    /\ options.last.value = [kind |-> "finite", milli |-> 400]
    /\ options.current.wakeRequiredHits = 1000
    /\ options.current.timeoutMs = 30000000

\* C34: while a top-level command submitted without bypassConfirmation is being
\* resolved, no action whose required permission is confirm or admin has been
\* executed for it, at any depth, automation follow-ups included.
C34_ConfirmNeedsTopLevelBypass ==
    (stack # <<>> /\ ~stack[1].bypass) =>
        \A i \in DOMAIN executed :
            requiredPermission(executed[i].action) \notin {"confirm", "admin"}

\* C35: in every reachable state the suggestion list holds at most 40
\* entries, whatever commands, mode changes and automation hints produced it
C35_SuggestionsCapped == Len(suggestions) <= SuggestionLimit

NoRepeats(list) == \A i, j \in 1..Len(list) : list[i] = list[j] => i = j

ListsCapped ==
    /\ Len(commandHistory) <= HistoryLimit
    /\ Len(memory.commonCommands) <= CommonCommandLimit
    /\ NoRepeats(memory.commonCommands)

\* a record has been written: it stands first, the records before it follow in
\* their order and the one beyond the limit is gone; its command stands first
\* among the common commands, followed by the other ones in their order
RecordedFirst ==
    LET new == Head(commandHistory')
        others == SelectSeq(memory.commonCommands, LAMBDA item : item # new.command)
        common == memory'.commonCommands
    IN /\ Len(commandHistory') =
             (IF Len(commandHistory) < HistoryLimit THEN Len(commandHistory) + 1
              ELSE HistoryLimit)
       /\ \A i \in 2..Len(commandHistory') : commandHistory'[i] = commandHistory[i - 1]
       /\ Len(common) = (IF Len(others) < CommonCommandLimit THEN Len(others) + 1
                         ELSE CommonCommandLimit)
       /\ common[1] = new.command
       /\ \A i \in 2..Len(common) : common[i] = others[i - 1]

\* C36: the history holds at most 120 records and memory.commonCommands at
\* most 30 entries without duplicates, the most recent first; recording a
\* command when a list is full drops its oldest entry
C36_HistoryAndCommonCommands ==
    /\ []ListsCapped
    /\ [][IF commandHistory' # commandHistory THEN RecordedFirst
          ELSE memory'.commonCommands = memory.commonCommands]_vars

\* both lists were full and "/ask hi", a command not among them, has been
\* recorded: the oldest record and the oldest common command are gone
C36_Witness ==
    /\ Len(commandHistory) = HistoryLimit
    /\ commandHistory[1].command = "/ask hi"
    /\ commandHistory[HistoryLimit] = SeasonedRecord(CommonCommandLimit - 1)
    /\ Len(memory.commonCommands) = CommonCommandLimit
    /\ memory.commonCommands[1] = "/ask hi"
    /\ memory.commonCommands[CommonCommandLimit] = SeasonedCommand(CommonCommandLimit - 1)

MissionModes == {"work", "gaming", "focus", "night"}

\* C39: the remembered mode always equals the current mode, and the current
\* mode is one of work, gaming, focus, night
C39_LastModeIsMode ==
    /\ memory.lastMode = mode
    /\ mode \in MissionModes

\* C37: a text exactly equal to the trigger of an enabled custom command is
\* matched to that command, whatever other commands create and update have
\* stored beside it
C37_ExactTriggerWins ==
    \A i \in 1..Len(commands) :
       commands[i].enabled =>
          /\ match(commands, commands[i].trigger).found
          /\ match(commands, commands[i].trigger).index = i

PluginIds(list) == {list[i].id : i \in 1..Len(list)}

\* what a call of reloadPlugins owes to the plugins of the state before it
ReloadKeepsChoices ==
    LET found == PluginIds(reload'.found) \ {NoManifest.id}
    IN /\ PluginIds(plugins') = found
       /\ \A j \in 1..Len(plugins) :
             plugins[j].id \in found =>
                \E i \in 1..Len(plugins') :
                   /\ plugins'[i].id = plugins[j].id
                   /\ plugins'[i].enabled = plugins[j].enabled
                   /\ plugins'[i].installedAtIso = plugins[j].installedAtIso
       /\ \A i \in 1..Len(plugins') :
             plugins'[i].id \notin PluginIds(plugins) =>
                /\ plugins'[i].enabled
                /\ plugins'[i].installedAtIso = reload'.calls

\* C40: reloadPlugins keeps the enabled flag and the install timestamp of
\* every plugin whose id was already known, starts a newly found plugin
\* enabled, and drops a plugin whose manifest is no longer found
C40_ReloadKeepsChoices == [][reload' # reload => ReloadKeepsChoices]_vars

====
